---- MODULE Spec2Model ----
(***************************************************************************)
(* Model of the Android TV remote: the BLE HID controller                  *)
(* (bluetooth_control.py), its retrying manager (bluetooth_enhanced.py)    *)
(* and the TLS remote (remote_control.py).                                 *)
(***************************************************************************)
EXTENDS Integers, Sequences, FiniteSets, TLC

(***************************************************************************)
(* Bounds of the model                                                     *)
(***************************************************************************)
\* largest max_attempts a caller passes to BluetoothRemoteController.connect
MaxAttempts == 2
\* most transport handles that can be left connected without a reference
MaxLeaked == 1
\* largest max_retries a caller passes to connect_with_retry
MaxRetries == 3
\* cap of a connection_attempts counter
MaxCount == 3
\* the coroutines of the window that are pending at once
MaxTasks == 2
\* largest retry_count a caller passes to enhanced_discover_devices
MaxScans == 2
\* the devices of the largest scan
CrowdSize == 52
\* the most service-info lookups that end during one find_android_tv call
MaxLookups == 2

(***************************************************************************)
(* Values                                                                  *)
(***************************************************************************)
None == "None"

\* the devices in radio range, by address
Addrs == {"AA", "BB", "CC"}

HID_SERVICE_UUID == "00001812-0000-1000-8000-00805f9b34fb"
HID_REPORT_UUID == "00002a4d-0000-1000-8000-00805f9b34fb"

\* str.lower() on the strings that occur in the GATT tables below
Lower(s) ==
  CASE s = "00001812-0000-1000-8000-00805F9B34FB" -> "00001812-0000-1000-8000-00805f9b34fb"
    [] s = "00002A4D-0000-1000-8000-00805F9B34FB" -> "00002a4d-0000-1000-8000-00805f9b34fb"
    [] s = "Write" -> "write"
    [] s = "WRITE" -> "write"
    [] OTHER -> s

\* the GATT table each device exposes: services in order, each with its
\* characteristics in order
Gatt(addr) ==
  CASE addr = "AA" ->
         << [uuid |-> "00001800-0000-1000-8000-00805f9b34fb",
             characteristics |->
               << [uuid |-> "00002a00-0000-1000-8000-00805f9b34fb", properties |-> <<"read">>] >>],
            [uuid |-> "00001812-0000-1000-8000-00805F9B34FB",
             characteristics |->
               << [uuid |-> "00002a4b-0000-1000-8000-00805f9b34fb", properties |-> <<"read">>],
                  [uuid |-> "00002A4D-0000-1000-8000-00805F9B34FB",
                   properties |-> <<"read", "write", "notify">>] >>] >>
    [] addr = "BB" ->
         << [uuid |-> "0000ffe0-0000-1000-8000-00805f9b34fb",
             characteristics |->
               << [uuid |-> "00002a4d-0000-1000-8000-00805f9b34fb", properties |-> <<"read", "notify">>],
                  [uuid |-> "0000ffe1-0000-1000-8000-00805f9b34fb", properties |-> <<"Write">>],
                  [uuid |-> "0000ffe2-0000-1000-8000-00805f9b34fb",
                   properties |-> <<"write-without-response">>] >>],
            [uuid |-> "0000fff0-0000-1000-8000-00805f9b34fb",
             characteristics |->
               << [uuid |-> "0000fff1-0000-1000-8000-00805f9b34fb",
                   properties |-> <<"read", "write">>] >>] >>
    [] OTHER ->
         << [uuid |-> "0000180f-0000-1000-8000-00805f9b34fb",
             characteristics |->
               << [uuid |-> "00002a19-0000-1000-8000-00805f9b34fb", properties |-> <<"read">>] >>] >>

\* every characteristic uuid of the GATT tables
CharUuids ==
  UNION {UNION {{Gatt(a)[i].characteristics[j].uuid :
                   j \in 1..Len(Gatt(a)[i].characteristics)} :
                i \in 1..Len(Gatt(a))} : a \in Addrs}

ConsumerControlCodes ==
  [POWER |-> 48, HOME |-> 547, BACK |-> 548, MENU |-> 64,
   VOLUME_UP |-> 233, VOLUME_DOWN |-> 234, VOLUME_MUTE |-> 226,
   CHANNEL_UP |-> 156, CHANNEL_DOWN |-> 157, PLAY_PAUSE |-> 205,
   STOP |-> 183, FAST_FORWARD |-> 179, REWIND |-> 180, RECORD |-> 178,
   UP |-> 66, DOWN |-> 67, LEFT |-> 68, RIGHT |-> 69, SELECT |-> 65,
   PAIR |-> 549]

\* the key table of send_key_command
key_mapping ==
  [POWER |-> ConsumerControlCodes.POWER, HOME |-> ConsumerControlCodes.HOME,
   BACK |-> ConsumerControlCodes.BACK, MENU |-> ConsumerControlCodes.MENU,
   VOLUME_UP |-> ConsumerControlCodes.VOLUME_UP,
   VOLUME_DOWN |-> ConsumerControlCodes.VOLUME_DOWN,
   MUTE |-> ConsumerControlCodes.VOLUME_MUTE,
   CHANNEL_UP |-> ConsumerControlCodes.CHANNEL_UP,
   CHANNEL_DOWN |-> ConsumerControlCodes.CHANNEL_DOWN,
   DPAD_UP |-> ConsumerControlCodes.UP, DPAD_DOWN |-> ConsumerControlCodes.DOWN,
   DPAD_LEFT |-> ConsumerControlCodes.LEFT, DPAD_RIGHT |-> ConsumerControlCodes.RIGHT,
   DPAD_CENTER |-> ConsumerControlCodes.SELECT,
   PLAY_PAUSE |-> ConsumerControlCodes.PLAY_PAUSE, STOP |-> ConsumerControlCodes.STOP,
   FAST_FORWARD |-> ConsumerControlCodes.FAST_FORWARD,
   REWIND |-> ConsumerControlCodes.REWIND, PAIR |-> ConsumerControlCodes.PAIR]

\* the key names a caller passes: the table's, and names that are not in it
KeyNames == DOMAIN key_mapping \cup {"VOLUME_MUTE", "RECORD", "UP", "KEYCODE_NETFLIX"}

\* a slip in the byte order: big-endian usage code
PackBigEndian(report_id, usage_code) ==
  << report_id % 256, (usage_code \div 256) % 256, usage_code % 256 >>

\* struct.pack('<BH', report_id, usage_code)
Pack(report_id, usage_code) ==
  << report_id % 256, usage_code % 256, (usage_code \div 256) % 256 >>

\* the report id of the consumer-control report
REPORT_ID == 1

\* the characteristics of a service list that advertise 'write', in the
\* order the nested loops of _try_generic_write visit them
RECURSIVE WritableOfChars(_)
WritableOfChars(chars) ==
  IF chars = << >> THEN << >>
  ELSE LET c == Head(chars)
           w == \E i \in 1..Len(c.properties) : Lower(c.properties[i]) = "write"
       IN (IF w THEN << c.uuid >> ELSE << >>) \o WritableOfChars(Tail(chars))

RECURSIVE WritableChars(_)
WritableChars(services) ==
  IF services = << >> THEN << >>
  ELSE WritableOfChars(Head(services).characteristics) \o WritableChars(Tail(services))

\* the first characteristic of a service with the HID report uuid
RECURSIVE FirstReportChar(_)
FirstReportChar(chars) ==
  IF chars = << >> THEN None
  ELSE IF Lower(Head(chars).uuid) = Lower(HID_REPORT_UUID) THEN Head(chars).uuid
  ELSE FirstReportChar(Tail(chars))

\* the service loop of connect: the report characteristic of the HID service
RECURSIVE FindHidReportChar(_, _)
FindHidReportChar(services, found) ==
  IF services = << >> THEN found
  ELSE LET s == Head(services)
           c == IF Lower(s.uuid) = Lower(HID_SERVICE_UUID)
                THEN FirstReportChar(s.characteristics) ELSE None
       IN FindHidReportChar(Tail(services), IF c # None THEN c ELSE found)

(***************************************************************************)
(* The write path of a key send, as functions of the transport's outcomes  *)
(***************************************************************************)
\* one entry of the transport I/O log
IoEntry(op, char, data, ok) ==
  [op |-> op, char |-> char, data |-> data, ok |-> ok,
   err |-> IF ok THEN None ELSE "Exception"]

\* a transport call that does no write and ends with err (None: it returned)
IoCall(op, err) == [op |-> op, char |-> None, data |-> << >>, ok |-> err = None, err |-> err]

\* the characteristic loop of _try_generic_write: tries each write-capable
\* characteristic until one accepts; wOk[c] tells whether the write to c succeeds
RECURSIVE GenericWriteLoop(_, _, _)
GenericWriteLoop(chars, data, wOk) ==
  IF chars = << >> THEN [ok |-> FALSE, io |-> << >>]
  ELSE IF wOk[Head(chars)]
       THEN [ok |-> TRUE, io |-> << IoEntry("write", Head(chars), data, TRUE) >>]
       ELSE LET r == GenericWriteLoop(Tail(chars), data, wOk)
            IN [ok |-> r.ok,
                io |-> << IoEntry("write", Head(chars), data, FALSE) >> \o r.io]

\* _try_generic_write; svcOk tells whether get_services returns
TryGenericWrite(services, data, svcOk, wOk) ==
  IF ~svcOk THEN [ok |-> FALSE, io |-> << IoCall("get_services", "Exception") >>]
  ELSE LET r == GenericWriteLoop(WritableChars(services), data, wOk)
       IN [ok |-> r.ok, io |-> << IoCall("get_services", None) >> \o r.io]

\* a slip: the result of the press write is not looked at
SendConsumerReportNoAbort(usage_code, hid, services, out) ==
  LET report == Pack(REPORT_ID, usage_code)
      release_report == Pack(REPORT_ID, 0)
  IN IF hid # None
     THEN LET p == IoEntry("write", hid, report, out.pressW[hid])
              r == IoEntry("write", hid, release_report, out.releaseW[hid])
          IN [ok |-> r.ok, io |-> << p, r >>]
     ELSE LET p == TryGenericWrite(services, report, out.pressSvc, out.pressW)
              r == TryGenericWrite(services, release_report, out.releaseSvc, out.releaseW)
          IN [ok |-> TRUE, io |-> p.io \o r.io]

\* a slip: the release is written before the press
SendConsumerReportReleaseFirst(usage_code, hid, services, out) ==
  LET report == Pack(REPORT_ID, usage_code)
      release_report == Pack(REPORT_ID, 0)
  IN IF hid # None
     THEN LET p == IoEntry("write", hid, release_report, out.pressW[hid])
              r == IoEntry("write", hid, report, out.releaseW[hid])
          IN IF ~p.ok THEN [ok |-> FALSE, io |-> << p >>]
             ELSE [ok |-> r.ok, io |-> << p, r >>]
     ELSE LET p == TryGenericWrite(services, release_report, out.pressSvc, out.pressW)
              r == TryGenericWrite(services, report, out.releaseSvc, out.releaseW)
          IN IF ~p.ok THEN [ok |-> FALSE, io |-> p.io]
             ELSE [ok |-> TRUE, io |-> p.io \o r.io]

\* _send_consumer_report: press report, then release report; out holds the
\* transport's outcomes (pressSvc, pressW, releaseSvc, releaseW)
SendConsumerReport(usage_code, hid, services, out) ==
  LET report == Pack(REPORT_ID, usage_code)
      release_report == Pack(REPORT_ID, 0)
  IN IF hid # None
     THEN LET p == IoEntry("write", hid, report, out.pressW[hid])
              r == IoEntry("write", hid, release_report, out.releaseW[hid])
          IN IF ~p.ok THEN [ok |-> FALSE, io |-> << p >>]
             ELSE [ok |-> r.ok, io |-> << p, r >>]
     ELSE LET p == TryGenericWrite(services, report, out.pressSvc, out.pressW)
              r == TryGenericWrite(services, release_report, out.releaseSvc, out.releaseW)
          IN IF ~p.ok THEN [ok |-> FALSE, io |-> p.io]
             ELSE [ok |-> TRUE, io |-> p.io \o r.io]

\* the outcomes the transport can produce for the writes of one key send
WriteOutcomes(chars) ==
  [pressSvc : BOOLEAN, pressW : [chars -> BOOLEAN],
   releaseSvc : BOOLEAN, releaseW : [chars -> BOOLEAN]]

(***************************************************************************)
(* State                                                                   *)
(***************************************************************************)
VARIABLES
  \* BluetoothRemoteController
  client,               \* the BleakClient the controller references, or NoClient
  is_connected,
  device_address,
  device_name,
  hid_report_char,
  connection_callback,  \* whether a status callback is set
  \* the transport
  leaked,               \* per address, the handles the controller created and no
                        \* longer references while their link is still up
  \* the running / last call on the controller
  pc,                   \* "idle", or "connect" while connect() is in its loop
  frame,                \* the locals of connect(): device_address, max_attempts, attempt
  ret,                  \* the last operation, its argument and its result
  notified,             \* notifications delivered to the callback during the call
  slept,                \* the sleeps of the call, in seconds
  io,                   \* transport I/O of the call
  \* EnhancedBluetoothDeviceManager
  connection_attempts,  \* dict address -> count
  mpc,                  \* "idle", "loop" or "await" (inside controller.connect)
  mframe,               \* the locals of connect_with_retry
  mret,                 \* the last manager operation and its result
  mslept,               \* the sleeps of connect_with_retry, in seconds
  failed_since,         \* per address, failed attempts since the last success or reset
  \* RemoteControl (TLS transport)
  remote,               \* the AndroidTVRemote the controller references, or NoRemote
  remote_leaked,        \* the AndroidTVRemote objects it no longer references
                        \* while their connection is still up
  cert_exists,          \* whether keys/cert.pem and keys/key.pem exist
  paired,               \* per host, whether the TV has accepted the certificate:
                        \* "no", in this "session", or in an "earlier" one
  tpc,                  \* the position of pair(): "idle", "cert", "start", "code", "connect"
  tframe,               \* the locals of pair(): host, attempt, retry
  tret,                 \* the last RemoteControl operation and how it ended
  tlog,                 \* the calls pair() made and how a submitted code ended, in order
  \* MainWindow
  tasks,                \* the coroutines the window started with asyncio.create_task
  win_connected,        \* MainWindow.is_connected
  search_label,         \* the text of the status label
  \* EnhancedBluetoothDeviceManager.enhanced_discover_devices
  all_devices,          \* the dedup dict of the running call, in insertion order
  discovered_devices,   \* the list the manager keeps from the last discovery
  dpc,                  \* the position of enhanced_discover_devices: "idle", "scan"
  dframe,               \* its locals: retry_count, attempt
  dret,                 \* the last discovery operation and how it ended
  dslept,               \* the sleeps of the running call, in seconds
  dseen,                \* the observations with an address the scans of the call made, in order
  dlog,                 \* how each scan attempt of the call ended: "found", "none" or "raised"
  \* BluetoothDeviceManager
  basic_discovered_devices, \* the list the basic manager keeps from its last discovery
  \* _calculate_device_quality
  scored,               \* the last two devices scored, with their scores
  \* RemoteControl.find_android_tv
  found_addresses,      \* RemoteControl.found_addresses
  zc,                   \* the resolver of the call: "none", "open", "closed", "close_failed"
  browsers,             \* the browsers the call started: "running", "cancelled", "cancel_failed"
  zpc,                  \* its position: "idle", "resolver", "browse", "sleep", "cancel", "close"
  zslept,               \* the sleeps of the call, in seconds
  zlookups,             \* the _async_display_service_info tasks still pending: own (started
                        \* during the running or last call) and stale (started during an earlier one)
  zorigin,              \* for each entry of found_addresses, the kind of task that added it
  zret,                 \* the last find_android_tv call and how it ended
  \* history
  history_file,         \* the entries in connection_history.json, in order
  hret                  \* the last history operation, the store before it and what it returned

ctrlFields == << client, is_connected, device_address, device_name, hid_report_char >>
ctrlVars == << client, is_connected, device_address, device_name, hid_report_char,
               connection_callback, leaked, pc, frame, ret, notified, slept, io >>
mgrVars == << connection_attempts, mpc, mframe, mret, mslept, failed_since >>
tlsVars == << remote, remote_leaked, cert_exists, paired, tpc, tframe, tret, tlog >>
uiVars == << tasks, win_connected, search_label >>
discVars == << all_devices, discovered_devices, dpc, dframe, dret, dslept, dseen, dlog,
               basic_discovered_devices >>
scoreVars == << scored >>
mdnsVars == << found_addresses, zc, browsers, zpc, zslept, zlookups, zorigin, zret >>
histVars == << history_file, hret >>
\* the state of the components that stand apart from the controllers
restVars == << discVars, scoreVars, mdnsVars, histVars >>
vars == << ctrlVars, mgrVars, tlsVars, uiVars, restVars >>

\* what the controller's own steps leave alone
nonCtrlVars == << mgrVars, tlsVars, uiVars, restVars >>
\* what the steps of the manager and its controller leave alone
nonBleVars == << tlsVars, uiVars, restVars >>
\* what the steps of RemoteControl leave alone
nonTlsVars == << ctrlVars, mgrVars, uiVars, restVars >>
\* what the steps of a Bluetooth discovery leave alone
nonDiscVars == << ctrlVars, mgrVars, tlsVars, uiVars, scoreVars, mdnsVars, histVars >>
\* what scoring a device leaves alone
nonScoreVars == << ctrlVars, mgrVars, tlsVars, uiVars, discVars, mdnsVars, histVars >>
\* what the steps of find_android_tv leave alone
nonMdnsVars == << ctrlVars, mgrVars, tlsVars, uiVars, discVars, scoreVars, histVars >>
\* what the operations of the history leave alone
nonHistVars == << ctrlVars, mgrVars, tlsVars, uiVars, discVars, scoreVars, mdnsVars >>

\* no call of connect() has locals
NoFrame == [device_address |-> None, max_attempts |-> 0, attempt |-> 0]

\* no call of connect_with_retry has locals; start is the counter of the
\* address when the call was entered, transport the handle connects it made
NoMFrame == [device_address |-> None, max_retries |-> 0, attempt |-> 0,
             start |-> 0, transport |-> 0]

\* {}
EmptyDict == [a \in {} |-> 0]

\* the hosts found on the network
Hosts == {"10.0.0.1", "10.0.0.2"}

\* no AndroidTVRemote
NoRemote == [host |-> None, conn |-> "none", keep_alive |-> FALSE, callbacks |-> 0]

\* no call of pair() has locals; known tells whether, when the call was
\* entered, the certificate existed and the host had accepted it in an
\* earlier session
NoTFrame == [host |-> None, attempt |-> 0, retry |-> 0, known |-> FALSE]

\* the coroutines that can be pending at once
TaskIds == 1 .. MaxTasks

\* a slot without a coroutine
NoTask == [trigger |-> None, pc |-> "free", host |-> None, attempt |-> 0, retry |-> 0]

\* no call of enhanced_discover_devices has locals
NoDFrame == [retry_count |-> 0, attempt |-> 0]

\* no BleakClient
NoClient == [address |-> None, is_connected |-> FALSE]

\* BleakClient(device_address): a fresh handle, not connected
BleakClient(addr) == [address |-> addr, is_connected |-> FALSE]

\* the default of connect's max_attempts
DEFAULT_MAX_ATTEMPTS == 3

\* _notify_connection_status: delivered only when a callback is set
Notify(log, connected, message) ==
  IF connection_callback THEN Append(log, << connected, message >>) ELSE log

\* the reference to handle h is dropped: if its link is up it stays up
Leak(l, h) == IF h.is_connected THEN [l EXCEPT ![h.address] = @ + 1] ELSE l

\* the number of handles left connected without a reference
RECURSIVE SumOver(_, _)
SumOver(f, S) ==
  IF S = {} THEN 0 ELSE LET a == CHOOSE x \in S : TRUE IN f[a] + SumOver(f, S \ {a})

LeakTotal(l) == SumOver(l, Addrs)

\* client.disconnect() on handle h; stays: the call raised and the link is still up
ClientDisconnect(h, stays) == [h EXCEPT !.is_connected = h.is_connected /\ stays]

\* asyncio.sleep(seconds) between attempts, none after the last
SleepUnlessLast(log, attempt, max, seconds) ==
  IF attempt < max - 1 THEN Append(log, seconds) ELSE log

\* a slip: disconnect() leaves the resolved characteristic and the address behind
DisconnectKeepsFields(h, stays, l, nlog) ==
  /\ client' = NoClient
  /\ leaked' = Leak(l, ClientDisconnect(h, stays))
  /\ is_connected' = FALSE
  /\ UNCHANGED << device_address, hid_report_char >>
  /\ device_name' = None
  /\ notified' = Notify(nlog, FALSE, "Disconnected")

\* disconnect() on the controller whose client is h, with l the unreferenced
\* handles and nlog the notifications so far
Disconnect(h, stays, l, nlog) ==
  /\ client' = NoClient
  /\ leaked' = Leak(l, ClientDisconnect(h, stays))
  /\ is_connected' = FALSE
  /\ device_address' = None
  /\ device_name' = None
  /\ hid_report_char' = None
  /\ notified' = Notify(nlog, FALSE, "Disconnected")

Init ==
  /\ client = NoClient
  /\ is_connected = FALSE
  /\ device_address = None
  /\ device_name = None
  /\ hid_report_char = None
  /\ connection_callback = FALSE
  /\ leaked = [a \in Addrs |-> 0]
  /\ pc = "idle"
  /\ frame = NoFrame
  /\ ret = [op |-> "init", arg |-> None, result |-> FALSE]
  /\ notified = << >>
  /\ slept = << >>
  /\ io = << >>
  /\ connection_attempts = EmptyDict
  /\ mpc = "idle"
  /\ mframe = NoMFrame
  /\ mret = [op |-> "init", arg |-> None, result |-> FALSE]
  /\ mslept = << >>
  /\ failed_since = [a \in Addrs |-> 0]
  /\ remote = NoRemote
  /\ remote_leaked = 0
  /\ cert_exists = FALSE
  /\ paired = [h \in Hosts |-> "no"]
  /\ tpc = "idle"
  /\ tframe = NoTFrame
  /\ tret = [op |-> "init", arg |-> None, result |-> "ok"]
  /\ tlog = << >>
  /\ tasks = [t \in TaskIds |-> NoTask]
  /\ win_connected = FALSE
  /\ search_label = "Not connected"
  /\ all_devices = << >>
  /\ discovered_devices = << >>
  /\ dpc = "idle"
  /\ dframe = NoDFrame
  /\ dret = [op |-> "init", result |-> "ok"]
  /\ dslept = << >>
  /\ dseen = << >>
  /\ dlog = << >>
  /\ basic_discovered_devices = << >>
  /\ scored = << >>
  /\ found_addresses = << >>
  /\ zc = "none"
  /\ browsers = << >>
  /\ zpc = "idle"
  /\ zslept = << >>
  /\ zlookups = [own |-> 0, stale |-> 0]
  /\ zorigin = << >>
  /\ zret = [op |-> "init", result |-> "ok", list |-> << >>]
  /\ history_file = << >>
  /\ hret = [op |-> "init", ip |-> "None", now |-> << >>, before |-> << >>, result |-> << >>]

(***************************************************************************)
(* BluetoothRemoteController                                               *)
(***************************************************************************)
\* set_connection_callback
set_connection_callback ==
  /\ pc = "idle" /\ mpc = "idle"
  /\ connection_callback' = TRUE
  /\ ret' = [op |-> "set_connection_callback", arg |-> None, result |-> TRUE]
  /\ frame' = NoFrame
  /\ notified' = << >>
  /\ slept' = << >>
  /\ io' = << >>
  /\ UNCHANGED << ctrlFields, leaked, pc, nonCtrlVars >>

\* connect(device_address, max_attempts) is entered
EnterConnect(addr, max) ==
  /\ pc' = "connect"
  /\ frame' = [device_address |-> addr, max_attempts |-> max, attempt |-> 0]
  /\ ret' = [op |-> "connect", arg |-> addr, result |-> FALSE]
  /\ notified' = << >>
  /\ slept' = << >>
  /\ io' = << >>
  /\ UNCHANGED << ctrlFields, connection_callback, leaked >>

\* a caller other than the manager calls connect
connect ==
  /\ pc = "idle" /\ mpc = "idle"
  /\ \E addr \in Addrs, max \in 0..MaxAttempts : EnterConnect(addr, max)
  /\ UNCHANGED nonCtrlVars

\* the head of one iteration of connect's loop: notify, then self.client is
\* overwritten by a fresh handle (the handle it referenced is not disconnected)
InAttempt ==
  /\ pc = "connect"
  /\ frame.attempt < frame.max_attempts

NextAttempt == [frame EXCEPT !.attempt = @ + 1]

\* the handle's connect() times out (wait_for) or raises: the handler calls
\* client.disconnect() on the handle, which is not connected, then sleeps 2
ConnectRaises ==
  /\ InAttempt
  /\ \E err \in {"TimeoutError", "Exception"} :
       io' = Append(io, IoCall("connect", err))
  /\ client' = BleakClient(frame.device_address)
  /\ leaked' = Leak(leaked, client)
  /\ LeakTotal(leaked') <= MaxLeaked
  /\ notified' = Notify(notified, FALSE, "Connecting")
  /\ slept' = SleepUnlessLast(slept, frame.attempt, frame.max_attempts, 2)
  /\ frame' = NextAttempt
  /\ UNCHANGED << is_connected, device_address, device_name, hid_report_char,
                  connection_callback, pc, ret, nonCtrlVars >>

\* connect() returns but the handle is not connected: sleep 2, next attempt
ConnectNotConnected ==
  /\ InAttempt
  /\ io' = Append(io, IoCall("connect", None))
  /\ client' = BleakClient(frame.device_address)
  /\ leaked' = Leak(leaked, client)
  /\ LeakTotal(leaked') <= MaxLeaked
  /\ notified' = Notify(notified, FALSE, "Connecting")
  /\ slept' = SleepUnlessLast(slept, frame.attempt, frame.max_attempts, 2)
  /\ frame' = NextAttempt
  /\ UNCHANGED << is_connected, device_address, device_name, hid_report_char,
                  connection_callback, pc, ret, nonCtrlVars >>

\* connected, get_services times out: self.disconnect(), sleep 3, next attempt
ServiceDiscoveryTimeout ==
  /\ InAttempt
  /\ io' = io \o << IoCall("connect", None), IoCall("get_services", "TimeoutError") >>
  /\ \E stays \in BOOLEAN :
       Disconnect([address |-> frame.device_address, is_connected |-> TRUE], stays,
                  Leak(leaked, client), Notify(notified, FALSE, "Connecting"))
  /\ LeakTotal(leaked') <= MaxLeaked
  /\ slept' = SleepUnlessLast(slept, frame.attempt, frame.max_attempts, 3)
  /\ frame' = NextAttempt
  /\ UNCHANGED << connection_callback, pc, ret, nonCtrlVars >>

\* connected, get_services raises another error: the outer handler calls
\* client.disconnect(), sleeps 2 and goes to the next attempt
ServiceDiscoveryError ==
  /\ InAttempt
  /\ io' = io \o << IoCall("connect", None), IoCall("get_services", "Exception") >>
  /\ \E stays \in BOOLEAN :
       client' = ClientDisconnect([address |-> frame.device_address, is_connected |-> TRUE],
                                  stays)
  /\ leaked' = Leak(leaked, client)
  /\ LeakTotal(leaked') <= MaxLeaked
  /\ notified' = Notify(notified, FALSE, "Connecting")
  /\ slept' = SleepUnlessLast(slept, frame.attempt, frame.max_attempts, 2)
  /\ frame' = NextAttempt
  /\ UNCHANGED << is_connected, device_address, device_name, hid_report_char,
                  connection_callback, pc, ret, nonCtrlVars >>

\* _get_device_info: the name read from a characteristic whose uuid contains
\* "device_name"; the uuids of a GATT table are hexadecimal, none contains it
GetDeviceInfoName(services) ==
  LET named == {c \in CharUuids : c = "device_name"}
  IN IF \E i \in 1..Len(services) : \E j \in 1..Len(services[i].characteristics) :
          services[i].characteristics[j].uuid \in named
     THEN "read" ELSE "Unknown Device"

\* connected and services discovered: resolve the characteristic, set the
\* fields, notify, return True
ConnectSucceeds ==
  /\ InAttempt
  /\ io' = io \o << IoCall("connect", None), IoCall("get_services", None) >>
  /\ client' = [address |-> frame.device_address, is_connected |-> TRUE]
  /\ leaked' = Leak(leaked, client)
  /\ LeakTotal(leaked') <= MaxLeaked
  /\ hid_report_char' = FindHidReportChar(Gatt(frame.device_address), None)
  /\ device_address' = frame.device_address
  /\ is_connected' = TRUE
  /\ device_name' = GetDeviceInfoName(Gatt(frame.device_address))
  /\ notified' = Notify(Notify(notified, FALSE, "Connecting"), TRUE, "Connected")
  /\ ret' = [ret EXCEPT !.result = TRUE]
  /\ pc' = "idle"
  /\ UNCHANGED << connection_callback, frame, slept, nonCtrlVars >>

\* a slip: the failure path returns without cleaning up
ConnectExhaustedNoCleanup ==
  /\ pc = "connect"
  /\ frame.attempt >= frame.max_attempts
  /\ notified' = Notify(notified, FALSE, "Connection failed")
  /\ ret' = [ret EXCEPT !.result = FALSE]
  /\ pc' = "idle"
  /\ UNCHANGED << ctrlFields, leaked, connection_callback, frame, slept, io, nonCtrlVars >>

\* all attempts failed: notify the failure, self.disconnect(), return False
ConnectExhausted ==
  /\ pc = "connect"
  /\ frame.attempt >= frame.max_attempts
  /\ \E stays \in BOOLEAN :
       Disconnect(client, stays, leaked, Notify(notified, FALSE, "Connection failed"))
  /\ LeakTotal(leaked') <= MaxLeaked
  /\ ret' = [ret EXCEPT !.result = FALSE]
  /\ pc' = "idle"
  /\ UNCHANGED << connection_callback, frame, slept, io, nonCtrlVars >>

\* disconnect() called by the owner
disconnect ==
  /\ pc = "idle" /\ mpc = "idle"
  /\ \E stays \in BOOLEAN : Disconnect(client, stays, leaked, << >>)
  /\ LeakTotal(leaked') <= MaxLeaked
  /\ ret' = [op |-> "disconnect", arg |-> None, result |-> TRUE]
  /\ slept' = << >>
  /\ io' = << >>
  /\ frame' = NoFrame
  /\ UNCHANGED << connection_callback, pc, nonCtrlVars >>

\* the link of a handle drops (the device goes away)
LinkDrop ==
  /\ pc = "idle" /\ mpc = "idle"
  /\ \/ /\ client.is_connected
        /\ client' = [client EXCEPT !.is_connected = FALSE]
        /\ UNCHANGED leaked
     \/ /\ \E a \in Addrs : leaked[a] > 0 /\ leaked' = [leaked EXCEPT ![a] = @ - 1]
        /\ UNCHANGED client
  /\ ret' = [op |-> "link_drop", arg |-> None, result |-> TRUE]
  /\ frame' = NoFrame
  /\ notified' = << >>
  /\ slept' = << >>
  /\ io' = << >>
  /\ UNCHANGED << is_connected, device_address, device_name, hid_report_char,
                  connection_callback, pc, nonCtrlVars >>

\* the elements of a sequence
Range(seq) == {seq[i] : i \in 1..Len(seq)}

\* the characteristics a key send on handle h can write to
Targets(h, hid) == IF hid # None THEN {hid} ELSE Range(WritableChars(Gatt(h.address)))

\* the outcomes the transport can produce on handle h: no write succeeds on
\* a handle whose link is down
OutcomesOn(h, hid) ==
  {out \in WriteOutcomes(Targets(h, hid)) :
     ~h.is_connected => \A c \in Targets(h, hid) : ~out.pressW[c] /\ ~out.releaseW[c]}

\* a slip: the connection is not checked before the key is sent
SendKeyCommandUnchecked(key_code, out) ==
  IF key_code \notin DOMAIN key_mapping
  THEN [ok |-> FALSE, io |-> << >>]
  ELSE SendConsumerReport(key_mapping[key_code], hid_report_char, Gatt(client.address), out)

\* a slip: a key name that is not in the table is sent with usage code 0
SendKeyCommandDefaultCode(key_code, out) ==
  IF ~is_connected \/ client = NoClient
  THEN [ok |-> FALSE, io |-> << >>]
  ELSE SendConsumerReport(IF key_code \in DOMAIN key_mapping THEN key_mapping[key_code] ELSE 0,
                          hid_report_char, Gatt(client.address), out)

\* send_key_command(key_code) under the transport outcomes out: result and I/O
SendKeyCommand(key_code, out) ==
  IF ~is_connected \/ client = NoClient
  THEN [ok |-> FALSE, io |-> << >>]
  ELSE IF key_code \notin DOMAIN key_mapping
  THEN [ok |-> FALSE, io |-> << >>]
  ELSE SendConsumerReport(key_mapping[key_code], hid_report_char, Gatt(client.address), out)

\* send_key_command(key_code) with key_code drawn from keys
SendKeyFrom(keys) ==
  /\ pc = "idle" /\ mpc = "idle"
  /\ \E key_code \in keys : \E out \in OutcomesOn(client, hid_report_char) :
       LET r == SendKeyCommand(key_code, out)
       IN /\ ret' = [op |-> "send_key_command", arg |-> key_code, result |-> r.ok]
          /\ io' = r.io
  /\ frame' = NoFrame
  /\ notified' = << >>
  /\ slept' = << >>
  /\ UNCHANGED << ctrlFields, connection_callback, leaked, pc, nonCtrlVars >>

\* send_key_command with any key name
send_key_command == SendKeyFrom(KeyNames)

\* send_key_command with one of a few key names: two of the table, PAIR,
\* MUTE, and two names that are not in the table
SampleKeys == {"POWER", "HOME", "PAIR", "MUTE", "VOLUME_MUTE", "KEYCODE_NETFLIX"}

send_sample_key == SendKeyFrom(SampleKeys)

\* pair(): the PAIR key through send_key_command
pair ==
  /\ pc = "idle" /\ mpc = "idle"
  /\ \E out \in OutcomesOn(client, hid_report_char) :
       LET r == SendKeyCommand("PAIR", out)
       IN /\ ret' = [op |-> "pair", arg |-> "PAIR", result |-> r.ok]
          /\ io' = r.io
  /\ frame' = NoFrame
  /\ notified' = << >>
  /\ slept' = << >>
  /\ UNCHANGED << ctrlFields, connection_callback, leaked, pc, nonCtrlVars >>

\* the controller driven by its owner, with a status callback and link drops
NextBLE ==
  \/ set_connection_callback
  \/ connect
  \/ ConnectRaises
  \/ ConnectNotConnected
  \/ ServiceDiscoveryTimeout
  \/ ServiceDiscoveryError
  \/ ConnectSucceeds
  \/ ConnectExhausted
  \/ disconnect
  \/ LinkDrop
  \/ send_sample_key
  \/ pair

SpecBLE == Init /\ [][NextBLE]_vars

\* the controller driven by its owner, sending every key name
NextKeys ==
  \/ connect
  \/ ConnectRaises
  \/ ConnectNotConnected
  \/ ServiceDiscoveryTimeout
  \/ ServiceDiscoveryError
  \/ ConnectSucceeds
  \/ ConnectExhausted
  \/ disconnect
  \/ send_key_command
  \/ pair

SpecKeys == Init /\ [][NextKeys]_vars

(***************************************************************************)
(* Properties of a key send                                                *)
(***************************************************************************)
\* the write attempts of the call, in order
Writes == SelectSeq(io, LAMBDA e : e.op = "write")

\* the last call was a key send (send_key_command, or pair() through it)
KeySent == pc = "idle" /\ ret.op \in {"send_key_command", "pair"}

\* the press and release reports of the key that was sent
PressReport == Pack(REPORT_ID, key_mapping[ret.arg])
ReleaseReport == << 1, 0, 0 >>

\* some write of the press report was accepted
PressAccepted ==
  \E i \in 1..Len(Writes) : Writes[i].ok /\ Writes[i].data = PressReport

C3_UnknownKeyNoIo ==
  [][(ret'.op = "send_key_command" /\ ret'.arg \notin DOMAIN key_mapping) =>
       /\ ret'.result = FALSE
       /\ io' = << >>
       /\ UNCHANGED << ctrlFields, connection_callback, leaked, pc >>]_vars

\* a key name that is not in the table was sent on a connected controller
C3_Witness ==
  /\ ret.op = "send_key_command" /\ ret.arg = "KEYCODE_NETFLIX"
  /\ is_connected /\ client.is_connected
  /\ ~ret.result /\ io = << >>

\* C4: on a controller that is not connected, send_key_command and pair
\* return False and do no transport I/O
C4_NotConnectedNoIo ==
  (KeySent /\ ~is_connected) => (ret.result = FALSE /\ io = << >>)

\* pair() was called on a controller that is not connected
C4_Witness ==
  /\ KeySent /\ ret.op = "pair" /\ ~is_connected /\ client = NoClient
  /\ ~ret.result /\ io = << >>

\* C5: when no write of the press report is accepted, no release report is
\* written and the send returns False
C5_PressFailureAborts ==
  (KeySent /\ io # << >> /\ ~PressAccepted) =>
    /\ ret.result = FALSE
    /\ \A i \in 1..Len(Writes) : Writes[i].data # ReleaseReport

\* the press write on the HID report characteristic was refused
C5_Witness ==
  /\ KeySent /\ hid_report_char # None /\ ~ret.result
  /\ Len(Writes) = 1 /\ ~Writes[1].ok /\ Writes[1].data = PressReport

\* C6 as stated: whenever the press report was accepted, the send returns
\* True, whatever happens to the release write
C6_ReleaseFailureIgnored ==
  (KeySent /\ PressAccepted) => ret.result = TRUE

\* the usage codes of the specification's table
SpecUsageCodes ==
  [POWER |-> 48, HOME |-> 547, BACK |-> 548, MENU |-> 64, VOLUME_UP |-> 233,
   VOLUME_DOWN |-> 234, VOLUME_MUTE |-> 226, CHANNEL_UP |-> 156,
   CHANNEL_DOWN |-> 157, PLAY_PAUSE |-> 205, STOP |-> 183, FAST_FORWARD |-> 179,
   REWIND |-> 180, DPAD_UP |-> 66, DPAD_DOWN |-> 67, DPAD_LEFT |-> 68,
   DPAD_RIGHT |-> 69, DPAD_CENTER |-> 65, PAIR |-> 549]

\* C7 as stated: on a connected controller, send_key_command with a name of
\* the specification's table is dispatched, and what it writes first is the
\* press report 0x01, usage low byte, usage high byte of the table's code
C7_UsageCodeTable ==
  (pc = "idle" /\ ret.op = "send_key_command" /\ is_connected
     /\ ret.arg \in DOMAIN SpecUsageCodes) =>
    /\ io # << >>
    /\ Writes # << >> =>
         Writes[1].data = << 1, SpecUsageCodes[ret.arg] % 256,
                             SpecUsageCodes[ret.arg] \div 256 >>

(***************************************************************************)
(* Properties of connect                                                   *)
(***************************************************************************)
\* the last call was connect and it has returned False
ConnectFailed == pc = "idle" /\ ret.op = "connect" /\ ~ret.result

\* C8: when connect returns False the controller is Disconnected: is_connected
\* is False, client, device_address, device_name and hid_report_char are
\* cleared, and the failure was reported to the status callback
C8_FailureResolvesToDisconnected ==
  ConnectFailed =>
    /\ is_connected = FALSE
    /\ client = NoClient
    /\ device_address = None
    /\ device_name = None
    /\ hid_report_char = None
    /\ connection_callback =>
         \E i \in 1..Len(notified) : notified[i] = << FALSE, "Connection failed" >>

\* connect has returned False after at least one attempt on a controller
\* with a status callback, while a handle it made earlier is still connected
C8_Witness ==
  /\ ConnectFailed /\ frame.attempt >= 1 /\ connection_callback
  /\ LeakTotal(leaked) >= 1
  /\ notified[Len(notified)] = << FALSE, "Disconnected" >>

(***************************************************************************)
(* EnhancedBluetoothDeviceManager                                          *)
(***************************************************************************)
\* connection_attempts.get(device_address, 0)
get_connection_history(addr) ==
  IF addr \in DOMAIN connection_attempts THEN connection_attempts[addr] ELSE 0

\* 2 ** n
RECURSIVE Pow2(_)
Pow2(n) == IF n = 0 THEN 1 ELSE 2 * Pow2(n - 1)

\* the handle connects logged by the controller's call
TransportConnects == Len(SelectSeq(io, LAMBDA e : e.op = "connect"))

\* the awaited controller.connect has returned to connect_with_retry: its
\* locals and logs are gone
ConnectConsumed ==
  /\ frame' = NoFrame
  /\ notified' = << >>
  /\ slept' = << >>
  /\ io' = << >>
  /\ UNCHANGED << ctrlFields, connection_callback, leaked, pc, ret, nonBleVars >>

\* the addresses the manager is asked to connect to
ManagedAddrs == {"AA", "BB"}

\* connect_with_retry(device_address, max_retries) is entered: the counter of
\* the address is created at 0 when it is missing
connect_with_retry ==
  /\ mpc = "idle" /\ pc = "idle"
  /\ \E addr \in ManagedAddrs, max \in 0..MaxRetries :
       /\ get_connection_history(addr) + max <= MaxCount
       /\ connection_attempts' =
            IF addr \in DOMAIN connection_attempts THEN connection_attempts
            ELSE [a \in DOMAIN connection_attempts \cup {addr} |->
                    IF a = addr THEN 0 ELSE connection_attempts[a]]
       /\ mframe' = [device_address |-> addr, max_retries |-> max, attempt |-> 0,
                     start |-> get_connection_history(addr), transport |-> 0]
       /\ mret' = [op |-> "connect_with_retry", arg |-> addr, result |-> FALSE]
  /\ mpc' = "loop"
  /\ mslept' = << >>
  /\ UNCHANGED << ctrlVars, failed_since, nonBleVars >>

\* a slip: max_retries is handed down to controller.connect
RetryAttemptPassesRetries ==
  /\ mpc = "loop"
  /\ mframe.attempt < mframe.max_retries
  /\ connection_attempts' =
       [connection_attempts EXCEPT ![mframe.device_address] = @ + 1]
  /\ EnterConnect(mframe.device_address, mframe.max_retries)
  /\ mpc' = "await"
  /\ UNCHANGED << mframe, mret, mslept, failed_since, nonBleVars >>

\* a slip: the attempt is counted only once it has failed
RetryAttemptUncounted ==
  /\ mpc = "loop"
  /\ mframe.attempt < mframe.max_retries
  /\ EnterConnect(mframe.device_address, DEFAULT_MAX_ATTEMPTS)
  /\ mpc' = "await"
  /\ UNCHANGED << connection_attempts, mframe, mret, mslept, failed_since, nonBleVars >>

\* one iteration of the retry loop starts: count the attempt, call
\* controller.connect(device_address)
RetryAttempt ==
  /\ mpc = "loop"
  /\ mframe.attempt < mframe.max_retries
  /\ connection_attempts' =
       [connection_attempts EXCEPT ![mframe.device_address] = @ + 1]
  /\ EnterConnect(mframe.device_address, DEFAULT_MAX_ATTEMPTS)
  /\ mpc' = "await"
  /\ UNCHANGED << mframe, mret, mslept, failed_since, nonBleVars >>

\* a slip: the counter is left as it is on success
RetrySucceededNoReset ==
  /\ mpc = "await" /\ pc = "idle" /\ ret.result
  /\ UNCHANGED connection_attempts
  /\ failed_since' = [failed_since EXCEPT ![mframe.device_address] = 0]
  /\ mframe' = [mframe EXCEPT !.transport = @ + TransportConnects]
  /\ mret' = [mret EXCEPT !.result = TRUE]
  /\ mpc' = "idle"
  /\ ConnectConsumed
  /\ UNCHANGED mslept

\* controller.connect returned True: reset the counter, return True
RetrySucceeded ==
  /\ mpc = "await" /\ pc = "idle" /\ ret.result
  /\ connection_attempts' = [connection_attempts EXCEPT ![mframe.device_address] = 0]
  /\ failed_since' = [failed_since EXCEPT ![mframe.device_address] = 0]
  /\ mframe' = [mframe EXCEPT !.transport = @ + TransportConnects]
  /\ mret' = [mret EXCEPT !.result = TRUE]
  /\ mpc' = "idle"
  /\ ConnectConsumed
  /\ UNCHANGED mslept

\* a slip: a fixed one-second wait, also after the last attempt
RetryFailedFixedWait ==
  /\ mpc = "await" /\ pc = "idle" /\ ~ret.result
  /\ failed_since' = [failed_since EXCEPT ![mframe.device_address] = @ + 1]
  /\ mslept' = Append(mslept, 1)
  /\ mframe' = [mframe EXCEPT !.attempt = @ + 1, !.transport = @ + TransportConnects]
  /\ mpc' = "loop"
  /\ ConnectConsumed
  /\ UNCHANGED << connection_attempts, mret >>

\* controller.connect returned False: wait 2 ** attempt seconds unless this
\* was the last attempt, then go round the loop
RetryFailed ==
  /\ mpc = "await" /\ pc = "idle" /\ ~ret.result
  /\ failed_since' = [failed_since EXCEPT ![mframe.device_address] = @ + 1]
  /\ mslept' = IF mframe.attempt < mframe.max_retries - 1
               THEN Append(mslept, Pow2(mframe.attempt)) ELSE mslept
  /\ mframe' = [mframe EXCEPT !.attempt = @ + 1, !.transport = @ + TransportConnects]
  /\ mpc' = "loop"
  /\ ConnectConsumed
  /\ UNCHANGED << connection_attempts, mret >>

\* the loop is over without a success: return False
RetryExhausted ==
  /\ mpc = "loop"
  /\ mframe.attempt >= mframe.max_retries
  /\ mret' = [mret EXCEPT !.result = FALSE]
  /\ mpc' = "idle"
  /\ UNCHANGED << ctrlVars, connection_attempts, mframe, mslept, failed_since, nonBleVars >>

\* reset_connection_history(device_address): pop one address, or clear the
\* dict when no address is given
reset_connection_history ==
  /\ mpc = "idle" /\ pc = "idle"
  /\ \E addr \in ManagedAddrs \cup {None} :
       /\ connection_attempts' =
            IF addr # None
            THEN [a \in DOMAIN connection_attempts \ {addr} |-> connection_attempts[a]]
            ELSE EmptyDict
       /\ failed_since' =
            [a \in Addrs |-> IF addr = None \/ a = addr THEN 0 ELSE failed_since[a]]
       /\ mret' = [op |-> "reset_connection_history", arg |-> addr, result |-> TRUE]
  /\ mframe' = NoMFrame
  /\ mslept' = << >>
  /\ UNCHANGED << ctrlVars, mpc, nonBleVars >>

\* the manager and its controller
NextMgr ==
  \/ connect_with_retry
  \/ RetryAttempt
  \/ ConnectRaises
  \/ ConnectNotConnected
  \/ ServiceDiscoveryTimeout
  \/ ServiceDiscoveryError
  \/ ConnectSucceeds
  \/ ConnectExhausted
  \/ RetrySucceeded
  \/ RetryFailed
  \/ RetryExhausted
  \/ reset_connection_history
  \/ disconnect

SpecMgr == Init /\ [][NextMgr]_vars

(***************************************************************************)
(* Properties of connect_with_retry                                        *)
(***************************************************************************)
\* the last manager call was connect_with_retry and it has returned
RetryDone == mpc = "idle" /\ mret.op = "connect_with_retry"

\* C9: a connect_with_retry call with max_retries = 3 in which no attempt
\* succeeds makes exactly 3 attempts, waits 1 s then 2 s between them and
\* not after the last, returns False, and adds 3 to the counter of the
\* address, which is at 3 when the address had no failure on record
C9_ThreeAttemptsWithBackoff ==
  /\ mpc # "idle" => mframe.attempt <= mframe.max_retries
  /\ (RetryDone /\ mframe.max_retries = 3) =>
       \/ mret.result
       \/ /\ mframe.attempt = 3
          /\ mslept = << 1, 2 >>
          /\ get_connection_history(mframe.device_address) = mframe.start + 3
          /\ mframe.start = 0 => connection_attempts[mframe.device_address] = 3

\* connect_with_retry with max_retries = 3 has failed on a fresh address
C9_Witness ==
  /\ RetryDone /\ mframe.max_retries = 3 /\ ~mret.result
  /\ mframe.start = 0 /\ mframe.attempt = 3
  /\ connection_attempts[mframe.device_address] = 3
  /\ mslept = << 1, 2 >>

\* C10: whenever no connect_with_retry is in flight, the counter of every
\* address is the number of its attempts that failed since its last success
\* or reset; and a connect_with_retry call never changes the counter of an
\* address other than its own
C10_CounterIsFailuresSinceSuccess ==
  /\ [](mpc = "idle" => \A a \in Addrs : get_connection_history(a) = failed_since[a])
  /\ [][(mpc # "idle" \/ mpc' # "idle") =>
          \A a \in Addrs \ {mframe'.device_address} :
             /\ get_connection_history(a)' = get_connection_history(a)
             /\ (a \in DOMAIN connection_attempts') = (a \in DOMAIN connection_attempts)]_vars

\* failures of two separate calls have added up for one address while the
\* other address keeps its own count
C10_Witness ==
  /\ RetryDone /\ mframe.max_retries = 1 /\ mframe.device_address = "AA"
  /\ ~mret.result /\ mframe.start = 1
  /\ get_connection_history("AA") = 2
  /\ get_connection_history("BB") = 1


(***************************************************************************)
(* RemoteControl (TLS transport)                                           *)
(***************************************************************************)
\* the bounded number of pairing-code prompts and of connect tries in pair()
max_attempts == 3
max_retries == 3

\* the reference to AndroidTVRemote r is dropped: a connection it holds stays up
LeakRemote(n, r) == IF r.conn # "none" THEN n + 1 ELSE n

\* pair() ends by raising exc
PairRaises(exc) ==
  /\ tpc' = "idle"
  /\ tret' = [tret EXCEPT !.result = exc]

\* pair(host, callback) is entered: self.remote is overwritten by a new
\* AndroidTVRemote (the one it referenced is not disconnected)
rc_pair ==
  /\ tpc = "idle"
  /\ \E host \in Hosts :
       /\ remote' = [host |-> host, conn |-> "none", keep_alive |-> FALSE, callbacks |-> 0]
       /\ tframe' = [host |-> host, attempt |-> 0, retry |-> 0,
                     known |-> cert_exists /\ paired[host] = "earlier"]
       /\ tret' = [op |-> "pair", arg |-> host, result |-> "running"]
  /\ remote_leaked' = LeakRemote(remote_leaked, remote)
  /\ remote_leaked' <= MaxLeaked
  /\ tpc' = "cert"
  /\ tlog' = << >>
  /\ UNCHANGED << cert_exists, paired, nonTlsVars >>

\* async_generate_cert_if_missing: the pair of files is written when missing
PairGenerateCert ==
  /\ tpc = "cert"
  /\ \/ /\ cert_exists' = TRUE
        /\ tlog' = Append(tlog, "generate_cert_if_missing")
        /\ tpc' = "start"
        /\ UNCHANGED tret
     \/ /\ ~cert_exists
        /\ PairRaises("OSError")
        /\ tlog' = Append(tlog, "generate_cert_if_missing")
        /\ UNCHANGED cert_exists
  /\ UNCHANGED << remote, remote_leaked, paired, tframe, nonTlsVars >>

\* async_start_pairing: the pairing connection is opened, or the call raises
PairStartPairing ==
  /\ tpc = "start"
  /\ tlog' = Append(tlog, "start_pairing")
  /\ \/ /\ remote' = [remote EXCEPT !.conn = "pairing"]
        /\ tpc' = "code"
        /\ UNCHANGED tret
     \/ /\ \E exc \in {"CannotConnect", "ConnectionClosed"} : PairRaises(exc)
        /\ UNCHANGED remote
  /\ UNCHANGED << remote_leaked, cert_exists, paired, tframe, nonTlsVars >>

\* (mutant) a cancelled prompt is submitted as an empty code, which the TV
\* rejects
PairCodeCancelledAsEmptyCode ==
  /\ tpc = "code"
  /\ tlog' = tlog \o << "callback: cancel", "finish_pairing" >>
  /\ IF tframe.attempt = max_attempts - 1
     THEN PairRaises("InvalidAuth") /\ UNCHANGED tframe
     ELSE tframe' = [tframe EXCEPT !.attempt = @ + 1] /\ UNCHANGED << tpc, tret >>
  /\ UNCHANGED << remote, remote_leaked, cert_exists, paired, nonTlsVars >>

\* (mutant) a cancelled prompt raises without remote.disconnect()
PairCodeCancelledNoTeardown ==
  /\ tpc = "code"
  /\ tlog' = Append(tlog, "callback: cancel")
  /\ PairRaises("RuntimeError")
  /\ UNCHANGED << remote, remote_leaked, cert_exists, paired, tframe, nonTlsVars >>

\* callback() returns done = False: remote.disconnect(), RuntimeError
PairCodeCancelled ==
  /\ tpc = "code"
  /\ tlog' = tlog \o << "callback: cancel", "disconnect" >>
  /\ remote' = [remote EXCEPT !.conn = "none", !.keep_alive = FALSE]
  /\ PairRaises("RuntimeError")
  /\ UNCHANGED << remote_leaked, cert_exists, paired, tframe, nonTlsVars >>

\* callback() returns a code and async_finish_pairing accepts it
PairCodeAccepted ==
  /\ tpc = "code"
  /\ tlog' = tlog \o << "callback: code", "finish_pairing", "accepted" >>
  /\ remote' = [remote EXCEPT !.conn = "none"]
  /\ paired' = [paired EXCEPT ![tframe.host] = IF @ = "no" THEN "session" ELSE @]
  /\ tpc' = "connect"
  /\ UNCHANGED << remote_leaked, cert_exists, tframe, tret, nonTlsVars >>

\* (mutant) the rejected code of the last attempt is followed by one more prompt
PairCodeRejectedOffByOne ==
  /\ tpc = "code"
  /\ tlog' = tlog \o << "callback: code", "finish_pairing", "rejected" >>
  /\ IF tframe.attempt = max_attempts
     THEN PairRaises("InvalidAuth") /\ UNCHANGED tframe
     ELSE tframe' = [tframe EXCEPT !.attempt = @ + 1] /\ UNCHANGED << tpc, tret >>
  /\ UNCHANGED << remote, remote_leaked, cert_exists, paired, nonTlsVars >>

\* async_finish_pairing raises InvalidAuth: prompt again, or raise on the
\* last attempt
PairCodeRejected ==
  /\ tpc = "code"
  /\ tlog' = tlog \o << "callback: code", "finish_pairing", "rejected" >>
  /\ IF tframe.attempt = max_attempts - 1
     THEN PairRaises("InvalidAuth") /\ UNCHANGED tframe
     ELSE tframe' = [tframe EXCEPT !.attempt = @ + 1] /\ UNCHANGED << tpc, tret >>
  /\ UNCHANGED << remote, remote_leaked, cert_exists, paired, nonTlsVars >>

\* async_finish_pairing raises another error: it is raised again
PairCodeError ==
  /\ tpc = "code"
  /\ tlog' = tlog \o << "callback: code", "finish_pairing", "failed" >>
  /\ remote' = [remote EXCEPT !.conn = "none"]
  /\ PairRaises("ConnectionClosed")
  /\ UNCHANGED << remote_leaked, cert_exists, paired, tframe, nonTlsVars >>

\* (mutant) keep_reconnecting() is called before async_connect
PairConnectedKeepAliveFirst ==
  /\ tpc = "connect"
  /\ tlog' = tlog \o << "keep_reconnecting", "connect", "add_callbacks" >>
  /\ remote' = [remote EXCEPT !.conn = "connected", !.keep_alive = TRUE,
                              !.callbacks = @ + 4]
  /\ tpc' = "idle"
  /\ tret' = [tret EXCEPT !.result = "ok"]
  /\ UNCHANGED << remote_leaked, cert_exists, paired, tframe, nonTlsVars >>

\* async_connect succeeds: keep_reconnecting(), the four update callbacks
PairConnected ==
  /\ tpc = "connect"
  /\ tlog' = tlog \o << "connect", "keep_reconnecting", "add_callbacks" >>
  /\ remote' = [remote EXCEPT !.conn = "connected", !.keep_alive = TRUE,
                              !.callbacks = @ + 4]
  /\ tpc' = "idle"
  /\ tret' = [tret EXCEPT !.result = "ok"]
  /\ UNCHANGED << remote_leaked, cert_exists, paired, tframe, nonTlsVars >>

\* async_connect raises InvalidAuth: sleep 1 and retry, or raise on the last
PairConnectAuthError ==
  /\ tpc = "connect"
  /\ IF tframe.retry = max_retries - 1
     THEN /\ PairRaises("InvalidAuth")
          /\ tlog' = Append(tlog, "connect")
          /\ UNCHANGED tframe
     ELSE /\ tframe' = [tframe EXCEPT !.retry = @ + 1]
          /\ tlog' = tlog \o << "connect", "sleep 1" >>
          /\ UNCHANGED << tpc, tret >>
  /\ UNCHANGED << remote, remote_leaked, cert_exists, paired, nonTlsVars >>

\* (mutant) the last failed connect sleeps too before it raises
PairConnectTransportErrorSleepsLast ==
  /\ tpc = "connect"
  /\ tlog' = tlog \o << "connect", "sleep 2" >>
  /\ IF tframe.retry = max_retries - 1
     THEN /\ \E exc \in {"CannotConnect", "ConnectionClosed"} : PairRaises(exc)
          /\ UNCHANGED tframe
     ELSE /\ tframe' = [tframe EXCEPT !.retry = @ + 1]
          /\ UNCHANGED << tpc, tret >>
  /\ UNCHANGED << remote, remote_leaked, cert_exists, paired, nonTlsVars >>

\* async_connect raises CannotConnect or ConnectionClosed: sleep 2 and
\* retry, or raise on the last
PairConnectTransportError ==
  /\ tpc = "connect"
  /\ IF tframe.retry = max_retries - 1
     THEN /\ \E exc \in {"CannotConnect", "ConnectionClosed"} : PairRaises(exc)
          /\ tlog' = Append(tlog, "connect")
          /\ UNCHANGED tframe
     ELSE /\ tframe' = [tframe EXCEPT !.retry = @ + 1]
          /\ tlog' = tlog \o << "connect", "sleep 2" >>
          /\ UNCHANGED << tpc, tret >>
  /\ UNCHANGED << remote, remote_leaked, cert_exists, paired, nonTlsVars >>

\* disconnect(): self.remote.disconnect(); without a remote the attribute
\* access on None raises
rc_disconnect ==
  /\ tpc = "idle"
  /\ IF remote = NoRemote
     THEN /\ tret' = [op |-> "disconnect", arg |-> None, result |-> "AttributeError"]
          /\ UNCHANGED remote
     ELSE /\ tret' = [op |-> "disconnect", arg |-> None, result |-> "ok"]
          /\ remote' = [remote EXCEPT !.conn = "none", !.keep_alive = FALSE]
  /\ tframe' = NoTFrame
  /\ tlog' = << >>
  /\ UNCHANGED << remote_leaked, cert_exists, paired, tpc, nonTlsVars >>

\* the application is started again: the objects are new, the connections of
\* the old process are gone, the certificate files remain
rc_restart ==
  /\ tpc = "idle"
  /\ remote' = NoRemote
  /\ remote_leaked' = 0
  /\ tframe' = NoTFrame
  /\ tret' = [op |-> "init", arg |-> None, result |-> "ok"]
  /\ tlog' = << >>
  /\ paired' = [h \in DOMAIN paired |-> IF paired[h] = "no" THEN "no" ELSE "earlier"]
  /\ UNCHANGED << cert_exists, tpc, nonTlsVars >>

\* RemoteControl driven by the main window
NextTLS ==
  \/ rc_pair
  \/ PairGenerateCert
  \/ PairStartPairing
  \/ PairCodeCancelled
  \/ PairCodeAccepted
  \/ PairCodeRejected
  \/ PairCodeError
  \/ PairConnected
  \/ PairConnectAuthError
  \/ PairConnectTransportError
  \/ rc_disconnect
  \/ rc_restart

SpecTLS == Init /\ [][NextTLS]_vars

(***************************************************************************)
(* One connection per controller                                           *)
(***************************************************************************)
\* the connected transport handles the BLE controller has created
BleConnections == (IF client.is_connected THEN 1 ELSE 0) + LeakTotal(leaked)

\* the connected AndroidTVRemote objects the TLS controller has created
TlsConnections == (IF remote.conn # "none" THEN 1 ELSE 0) + remote_leaked

\* C1 as stated: at most one transport handle created by a controller is
\* connected, in BluetoothRemoteController and in RemoteControl
C1_AtMostOneConnection == BleConnections <= 1 /\ TlsConnections <= 1

\* the part of C1 on RemoteControl alone
C1_TlsAtMostOneConnection == TlsConnections <= 1
(***************************************************************************)
(* The pairing-code loop of pair()                                         *)
(***************************************************************************)
\* how often x occurs in the sequence
Count(seq, x) == Cardinality({i \in DOMAIN seq : seq[i] = x})

\* the calls of codeProvider that pair() made
Prompts == Count(tlog, "callback: cancel") + Count(tlog, "callback: code")

\* the positions of the log where codeProvider was called
PromptAt == {i \in DOMAIN tlog : tlog[i] \in {"callback: cancel", "callback: code"}}

\* the first call of codeProvider returned done = False
FirstPromptCancelled ==
  /\ tret.op = "pair"
  /\ \E i \in PromptAt : tlog[i] = "callback: cancel" /\ \A j \in PromptAt : i <= j

\* some call of codeProvider returned done = False
PromptCancelled == tret.op = "pair" /\ Count(tlog, "callback: cancel") > 0

\* C11: when the first call of codeProvider returns done = False, pair() has
\* ended: no code was submitted (no async_finish_pairing), no connect was
\* attempted and codeProvider was called that one time only
C11_CancelOnFirstPromptAborts ==
  FirstPromptCancelled =>
    /\ tpc = "idle"
    /\ tret.result \notin {"ok", "running"}
    /\ Count(tlog, "finish_pairing") = 0
    /\ Count(tlog, "connect") = 0
    /\ Prompts = 1

C11_Witness == FirstPromptCancelled /\ tpc = "idle"

\* C12: when codeProvider returns done = False at any attempt, pair() ends
\* there: the remote is disconnected, RuntimeError (pairing cancelled) is
\* raised to the caller, nothing is submitted or prompted after it
C12_CancelTearsDownAndRaises ==
  PromptCancelled =>
    /\ tpc = "idle"
    /\ tret.result = "RuntimeError"
    /\ remote.conn = "none"
    /\ Count(tlog, "callback: cancel") = 1
    /\ Len(tlog) >= 2
    /\ tlog[Len(tlog) - 1] = "callback: cancel"
    /\ tlog[Len(tlog)] = "disconnect"

\* a cancellation at the second or third prompt
C12_Witness == PromptCancelled /\ tframe.attempt >= 1 /\ remote.conn = "none"

\* no position of the log after the first x holds an entry of the set
NothingAfter(x, entries) ==
  \A i, j \in DOMAIN tlog : (tlog[i] = x /\ i < j) => tlog[j] \notin entries

\* C13: codeProvider is called at most 3 times in one pair(); while the loop
\* runs every earlier prompt was a rejected code; an accepted code is the
\* last prompt; the third rejection ends pair() with InvalidAuth and no
\* connect attempt
C13_AtMostThreePrompts ==
  tret.op = "pair" =>
    /\ Prompts <= 3
    /\ tpc = "code" => (Prompts = Count(tlog, "rejected") /\ Prompts = tframe.attempt)
    /\ Count(tlog, "accepted") <= 1
    /\ NothingAfter("accepted", {"callback: cancel", "callback: code"})
    /\ Count(tlog, "rejected") = 3 =>
         /\ tpc = "idle"
         /\ tret.result = "InvalidAuth"
         /\ Count(tlog, "connect") = 0
         /\ Prompts = 3

C13_Witness == tret.op = "pair" /\ Count(tlog, "rejected") = 3 /\ tpc = "idle"

(***************************************************************************)
(* The connect loop of pair()                                              *)
(***************************************************************************)
\* the sleeps of the connect loop
ConnectSleeps == Count(tlog, "sleep 1") + Count(tlog, "sleep 2")

\* pair() has ended with an exception after three connect attempts
ConnectRetriesExhausted ==
  tret.op = "pair" /\ tpc = "idle" /\ tret.result # "ok" /\ Count(tlog, "connect") = 3

\* C14: connect is attempted at most 3 times and only after a code was
\* accepted; every failed attempt but the last is followed by a sleep; when
\* the third fails pair() raises the auth or transport error and neither
\* keep_reconnecting nor the update callbacks are installed
C14_AtMostThreeConnects ==
  tret.op = "pair" =>
    /\ Count(tlog, "connect") <= 3
    /\ Count(tlog, "connect") > 0 => Count(tlog, "accepted") = 1
    /\ \A i \in DOMAIN tlog : tlog[i] \in {"sleep 1", "sleep 2"} => tlog[i - 1] = "connect"
    /\ tpc = "connect" => ConnectSleeps = Count(tlog, "connect")
    /\ ConnectRetriesExhausted =>
         /\ ConnectSleeps = 2
         /\ tlog[Len(tlog)] = "connect"
         /\ tret.result \in {"InvalidAuth", "CannotConnect", "ConnectionClosed"}
         /\ ~remote.keep_alive
         /\ remote.callbacks = 0
         /\ Count(tlog, "keep_reconnecting") = 0

C14_Witness == ConnectRetriesExhausted /\ Count(tlog, "sleep 1") = 1 /\ Count(tlog, "sleep 2") = 1

\* C15 as stated: in the connect loop an InvalidAuth (the branch that sleeps
\* 1 second) is followed by a new start of pairing before the next connect,
\* a CannotConnect or ConnectionClosed (the branch that sleeps 2 seconds) by
\* the next connect
C15_AuthErrorRepairs ==
  tret.op = "pair" =>
    \A i \in DOMAIN tlog : i < Len(tlog) =>
      /\ tlog[i] = "sleep 1" => tlog[i + 1] = "start_pairing"
      /\ tlog[i] = "sleep 2" => tlog[i + 1] = "connect"

(***************************************************************************)
(* What the caller of pair() and disconnect() sees                         *)
(***************************************************************************)
\* the failure classes of the specification
FailureClasses ==
  {"InvalidCredentialOrCode", "CannotConnect", "ConnectionClosedDuringHandshake",
   "UserCancelled", "Timeout", "Unknown"}

\* the exception classes pair() lets through: those of androidtvremote2 and
\* the built-in ones
RaisedExceptions == {"InvalidAuth", "CannotConnect", "ConnectionClosed", "RuntimeError", "OSError"}

\* pair() has ended with an exception
PairFailed == tret.op = "pair" /\ tpc = "idle" /\ tret.result # "ok"

\* C16 as stated: what a failed pair() hands to its caller is one of the
\* failure classes and not an exception of the remote library or another
\* raw exception
C16_FailuresClassified ==
  PairFailed => (tret.result \in FailureClasses /\ tret.result \notin RaisedExceptions)

\* C17 as stated: disconnect() never raises and leaves the controller
\* without a connection, whatever the state it is called in
C17_DisconnectAlwaysWorks ==
  tret.op = "disconnect" =>
    (tret.result = "ok" /\ remote.conn = "none" /\ ~remote.keep_alive)

(***************************************************************************)
(* Keep-alive and update callbacks                                         *)
(***************************************************************************)
\* pair() has returned normally
PairSucceeded == tret.op = "pair" /\ tpc = "idle" /\ tret.result = "ok"

\* every x of the log comes before every y
Before(x, y) == \A i, j \in DOMAIN tlog : (tlog[i] = x /\ tlog[j] = y) => i < j

\* C18: keep_reconnecting and the four update callbacks are installed once
\* by a pair() that returns, right after the connect that succeeded, the
\* steps before it being generate certificate, start pairing, code accepted,
\* connect; a pair() that is running or has raised has installed neither
C18_KeepAliveOnceAfterConnect ==
  tret.op = "pair" =>
    /\ PairSucceeded =>
         /\ Count(tlog, "keep_reconnecting") = 1
         /\ Count(tlog, "add_callbacks") = 1
         /\ remote.keep_alive /\ remote.callbacks = 4 /\ remote.conn = "connected"
         /\ tlog[1] = "generate_cert_if_missing"
         /\ tlog[2] = "start_pairing"
         /\ Count(tlog, "accepted") = 1
         /\ Before("start_pairing", "accepted")
         /\ Before("accepted", "connect")
         /\ tlog[Len(tlog) - 2] = "connect"
         /\ tlog[Len(tlog) - 1] = "keep_reconnecting"
         /\ tlog[Len(tlog)] = "add_callbacks"
    /\ ~PairSucceeded =>
         /\ Count(tlog, "keep_reconnecting") = 0
         /\ Count(tlog, "add_callbacks") = 0
         /\ ~remote.keep_alive /\ remote.callbacks = 0

\* a pair() that returned after a failed connect attempt
C18_Witness == PairSucceeded /\ tframe.retry >= 1 /\ remote.keep_alive

(***************************************************************************)
(* The persisted certificate                                               *)
(***************************************************************************)
\* C19 as stated: a pair() entered when the certificate exists and the host
\* accepted it in an earlier session returns connected without a new
\* pairing handshake and without calling codeProvider
C19_CredentialReused ==
  (PairSucceeded /\ tframe.known) =>
    (Count(tlog, "start_pairing") = 0 /\ Prompts = 0)

(***************************************************************************)
(* MainWindow: the pairings the user starts                                *)
(***************************************************************************)
\* the positions of a coroutine that are inside RemoteControl.pair
PairPcs == {"cert", "start", "code", "connect"}

\* RemoteControl.disconnect() as MainWindow calls it: inside try/except
RemoteDisconnected(r) ==
  IF r = NoRemote THEN r ELSE [r EXCEPT !.conn = "none", !.keep_alive = FALSE]

\* the rescan button: create_task(self._pair())
on_search ==
  \E t \in TaskIds :
    /\ tasks[t].pc = "free"
    /\ tasks' = [tasks EXCEPT ![t] = [NoTask EXCEPT !.trigger = "rescan", !.pc = "begin"]]
    /\ UNCHANGED << win_connected, search_label, ctrlVars, mgrVars, restVars, tlsVars >>

\* the 'Pair New Device' button: create_task(self._pair())
on_pair_new_device ==
  \E t \in TaskIds :
    /\ tasks[t].pc = "free"
    /\ tasks' = [tasks EXCEPT ![t] = [NoTask EXCEPT !.trigger = "pair_new", !.pc = "begin"]]
    /\ UNCHANGED << win_connected, search_label, ctrlVars, mgrVars, restVars, tlsVars >>

\* a double click in the history list:
\* create_task(self._connect_to_history_device(entry))
on_history_item_double_clicked ==
  \E t \in TaskIds, ip \in Hosts :
    /\ tasks[t].pc = "free"
    /\ tasks' = [tasks EXCEPT ![t] = [NoTask EXCEPT !.trigger = "history", !.pc = "begin",
                                                     !.host = ip]]
    /\ UNCHANGED << win_connected, search_label, ctrlVars, mgrVars, restVars, tlsVars >>

\* pair(host, ...) is entered by coroutine t: self.remote is overwritten
EnterPair(t, host) ==
  /\ remote' = [host |-> host, conn |-> "none", keep_alive |-> FALSE, callbacks |-> 0]
  /\ tasks' = [tasks EXCEPT ![t] = [@ EXCEPT !.pc = "cert", !.host = host]]

\* _pair() up to its first await: disconnect when the window is connected,
\* then find_android_tv
PairTaskBegins(t) ==
  /\ tasks[t].pc = "begin" /\ tasks[t].trigger # "history"
  /\ search_label' = "Scanning..."
  /\ win_connected' = FALSE
  /\ remote' = IF win_connected THEN RemoteDisconnected(remote) ELSE remote
  /\ tasks' = [tasks EXCEPT ![t].pc = "scan"]
  /\ UNCHANGED << remote_leaked, cert_exists, paired, tpc, tframe, tret, tlog, ctrlVars, mgrVars, restVars >>

\* find_android_tv returns: pair with the first address, or nothing found,
\* or the search timed out or raised
PairTaskScanned(t) ==
  /\ tasks[t].pc = "scan"
  /\ \/ \E tv_addr \in Hosts :
          /\ search_label' = "Pairing"
          /\ EnterPair(t, tv_addr)
          /\ remote_leaked' = LeakRemote(remote_leaked, remote)
          /\ remote_leaked' <= MaxLeaked
     \/ /\ search_label' \in {"No TV found", "Search timeout", "Search error"}
        /\ tasks' = [tasks EXCEPT ![t] = NoTask]
        /\ UNCHANGED << remote, remote_leaked >>
  /\ UNCHANGED << win_connected, cert_exists, paired, tpc, tframe, tret, tlog, ctrlVars, mgrVars, restVars >>

\* _connect_to_history_device(entry) up to its first await, inside pair
HistoryTaskBegins(t) ==
  /\ tasks[t].pc = "begin" /\ tasks[t].trigger = "history"
  /\ search_label' = "Connecting"
  /\ EnterPair(t, tasks[t].host)
  /\ remote_leaked' = LeakRemote(remote_leaked, remote)
  /\ remote_leaked' <= MaxLeaked
  /\ UNCHANGED << win_connected, cert_exists, paired, tpc, tframe, tret, tlog, ctrlVars, mgrVars, restVars >>

\* pair() raised in coroutine t: the handler of its caller sets the label
TaskPairRaised(t) ==
  /\ tasks' = [tasks EXCEPT ![t] = NoTask]
  /\ search_label' = IF tasks[t].trigger = "history" THEN "Not connected" ELSE "Pairing error"
  /\ UNCHANGED win_connected

\* coroutine t stays inside pair()
TaskPairGoesOn(t, pc2) ==
  /\ tasks' = [tasks EXCEPT ![t].pc = pc2]
  /\ UNCHANGED << win_connected, search_label >>

\* async_generate_cert_if_missing in coroutine t
TaskGenerateCert(t) ==
  /\ tasks[t].pc = "cert"
  /\ \/ cert_exists' = TRUE /\ TaskPairGoesOn(t, "start")
     \/ ~cert_exists /\ UNCHANGED cert_exists /\ TaskPairRaised(t)
  /\ UNCHANGED << remote, remote_leaked, paired, tpc, tframe, tret, tlog, ctrlVars, mgrVars, restVars >>

\* async_start_pairing in coroutine t, on the remote self.remote is now
TaskStartPairing(t) ==
  /\ tasks[t].pc = "start"
  /\ \/ /\ remote' = [remote EXCEPT !.conn = IF @ = "none" THEN "pairing" ELSE @]
        /\ TaskPairGoesOn(t, "code")
     \/ UNCHANGED remote /\ TaskPairRaised(t)
  /\ UNCHANGED << remote_leaked, cert_exists, paired, tpc, tframe, tret, tlog, ctrlVars, mgrVars, restVars >>

\* one round of the code loop in coroutine t: cancelled, accepted, rejected
\* or failed
TaskPairingCode(t) ==
  /\ tasks[t].pc = "code"
  /\ \/ /\ remote' = RemoteDisconnected(remote)
        /\ TaskPairRaised(t)
        /\ UNCHANGED paired
     \/ /\ remote' = [remote EXCEPT !.conn = IF @ = "pairing" THEN "none" ELSE @]
        /\ paired' = [paired EXCEPT ![remote.host] = IF @ = "no" THEN "session" ELSE @]
        /\ TaskPairGoesOn(t, "connect")
     \/ /\ IF tasks[t].attempt = max_attempts - 1
           THEN TaskPairRaised(t)
           ELSE /\ tasks' = [tasks EXCEPT ![t].attempt = @ + 1]
                /\ UNCHANGED << win_connected, search_label >>
        /\ UNCHANGED << remote, paired >>
     \/ /\ remote' = [remote EXCEPT !.conn = IF @ = "pairing" THEN "none" ELSE @]
        /\ TaskPairRaised(t)
        /\ UNCHANGED paired
  /\ UNCHANGED << remote_leaked, cert_exists, tpc, tframe, tret, tlog, ctrlVars, mgrVars, restVars >>

\* async_connect succeeds in coroutine t: keep-alive, callbacks, pair()
\* returns and its caller reads device_info
TaskConnected(t) ==
  /\ tasks[t].pc = "connect"
  /\ remote' = [remote EXCEPT !.conn = "connected", !.keep_alive = TRUE,
                              !.callbacks = @ + 4]
  /\ tasks' = [tasks EXCEPT ![t] = NoTask]
  /\ win_connected' = TRUE
  /\ search_label' = "device"
  /\ UNCHANGED << remote_leaked, cert_exists, paired, tpc, tframe, tret, tlog, ctrlVars, mgrVars, restVars >>

\* async_connect raises in coroutine t: sleep and retry, or raise on the last
TaskConnectError(t) ==
  /\ tasks[t].pc = "connect"
  /\ IF tasks[t].retry = max_retries - 1
     THEN TaskPairRaised(t)
     ELSE /\ tasks' = [tasks EXCEPT ![t].retry = @ + 1]
          /\ UNCHANGED << win_connected, search_label >>
  /\ UNCHANGED << remote, remote_leaked, cert_exists, paired, tpc, tframe, tret, tlog, ctrlVars, mgrVars, restVars >>

\* wait_for(pair(...), timeout=30) of _pair() expires while pair() awaits
TaskPairTimeout(t) ==
  /\ tasks[t].pc \in PairPcs /\ tasks[t].trigger # "history"
  /\ tasks' = [tasks EXCEPT ![t] = NoTask]
  /\ search_label' = "Pairing timeout"
  /\ UNCHANGED << win_connected, tlsVars, ctrlVars, mgrVars, restVars >>

\* a button or list handler runs, or the event loop runs one pending
\* coroutine up to its next await
NextUI ==
  \/ on_search
  \/ on_pair_new_device
  \/ on_history_item_double_clicked
  \/ \E t \in TaskIds : PairTaskBegins(t)
  \/ \E t \in TaskIds : PairTaskScanned(t)
  \/ \E t \in TaskIds : HistoryTaskBegins(t)
  \/ \E t \in TaskIds : TaskGenerateCert(t)
  \/ \E t \in TaskIds : TaskStartPairing(t)
  \/ \E t \in TaskIds : TaskPairingCode(t)
  \/ \E t \in TaskIds : TaskConnected(t)
  \/ \E t \in TaskIds : TaskConnectError(t)
  \/ \E t \in TaskIds : TaskPairTimeout(t)

SpecUI == Init /\ [][NextUI]_vars

\* the coroutines that are inside RemoteControl.pair
PairingsInProgress == {t \in TaskIds : tasks[t].pc \in PairPcs}

\* C20 as stated: no two executions of pair() are in progress at once
C20_OnePairingAtATime == Cardinality(PairingsInProgress) <= 1
(***************************************************************************)
(* Bluetooth discovery: the quality score (bluetooth_enhanced.py)          *)
(***************************************************************************)
\* a name is the sequence of its characters; these are the names the
\* devices of the model advertise
NameAndroidTV == <<"A", "n", "d", "r", "o", "i", "d", " ", "T", "V">>
NameChromecast == <<"C", "h", "r", "o", "m", "e", "c", "a", "s", "t">>
NameRandomPhone == <<"r", "a", "n", "d", "o", "m", "-", "p", "h", "o", "n", "e">>
NameUnknownDevice == <<"U", "n", "k", "n", "o", "w", "n", " ", "D", "e", "v", "i", "c", "e">>
NameSpeaker == <<"S", "p", "e", "a", "k", "e", "r">>
NameLgWatch == <<"L", "G", " ", "W", "a", "t", "c", "h">>
NameTablet == <<"T", "a", "b", "l", "e", "t">>
NameEmpty == << >>

DeviceNames == {NameAndroidTV, NameChromecast, NameRandomPhone, NameUnknownDevice,
                NameSpeaker, NameLgWatch, NameTablet, NameEmpty}

\* the signal strengths of the model, in dBm, around every threshold of
\* the score
RssiValues == {-40, -49, -50, -51, -69, -70, -71, -84, -85, -86, -100}

\* rssi is << >> for None and << v >> for the value v
NoRssi == << >>

\* str.lower() of one character
LowerChar(c) ==
  CASE c = "A" -> "a"
    [] c = "B" -> "b"
    [] c = "C" -> "c"
    [] c = "D" -> "d"
    [] c = "E" -> "e"
    [] c = "F" -> "f"
    [] c = "G" -> "g"
    [] c = "H" -> "h"
    [] c = "I" -> "i"
    [] c = "J" -> "j"
    [] c = "K" -> "k"
    [] c = "L" -> "l"
    [] c = "M" -> "m"
    [] c = "N" -> "n"
    [] c = "O" -> "o"
    [] c = "P" -> "p"
    [] c = "Q" -> "q"
    [] c = "R" -> "r"
    [] c = "S" -> "s"
    [] c = "T" -> "t"
    [] c = "U" -> "u"
    [] c = "V" -> "v"
    [] c = "W" -> "w"
    [] c = "X" -> "x"
    [] c = "Y" -> "y"
    [] c = "Z" -> "z"
    [] OTHER -> c

\* str.lower()
lower(s) == [i \in DOMAIN s |-> LowerChar(s[i])]

\* sub in s, on strings
Contains(s, sub) ==
  \E i \in 1 .. (Len(s) - Len(sub) + 1) : SubSeq(s, i, i + Len(sub) - 1) = sub

strong_indicators ==
  {<<"a", "n", "d", "r", "o", "i", "d", " ", "t", "v">>,
   <<"g", "o", "o", "g", "l", "e", " ", "t", "v">>,
   <<"c", "h", "r", "o", "m", "e", "c", "a", "s", "t">>,
   <<"n", "v", "i", "d", "i", "a", " ", "s", "h", "i", "e", "l", "d">>,
   <<"m", "i", " ", "b", "o", "x">>,
   <<"f", "i", "r", "e", " ", "t", "v">>,
   <<"r", "o", "k", "u">>,
   <<"s", "m", "a", "r", "t", " ", "t", "v">>,
   <<"t", "v", " ", "b", "o", "x">>,
   <<"k", "o", "d", "i">>,
   <<"m", "e", "d", "i", "a", " ", "p", "l", "a", "y", "e", "r">>,
   <<"s", "t", "r", "e", "a", "m", "i", "n", "g">>}

known_brands ==
  {<<"g", "o", "o", "g", "l", "e">>,
   <<"a", "n", "d", "r", "o", "i", "d">>,
   <<"c", "h", "r", "o", "m", "e", "c", "a", "s", "t">>,
   <<"n", "v", "i", "d", "i", "a">>,
   <<"x", "i", "a", "o", "m", "i">>,
   <<"s", "a", "m", "s", "u", "n", "g">>,
   <<"l", "g">>,
   <<"s", "o", "n", "y">>,
   <<"t", "c", "l">>}

non_tv_indicators ==
  {<<"p", "h", "o", "n", "e">>,
   <<"h", "e", "a", "d", "p", "h", "o", "n", "e", "s">>,
   <<"e", "a", "r", "b", "u", "d", "s">>,
   <<"w", "a", "t", "c", "h">>,
   <<"f", "i", "t", "n", "e", "s", "s">>,
   <<"m", "o", "u", "s", "e">>,
   <<"k", "e", "y", "b", "o", "a", "r", "d">>,
   <<"t", "a", "b", "l", "e", "t">>}

skip_patterns ==
  {<<"p", "h", "o", "n", "e">>,
   <<"h", "e", "a", "d", "p", "h", "o", "n", "e">>,
   <<"e", "a", "r", "b", "u", "d">>,
   <<"w", "a", "t", "c", "h">>,
   <<"f", "i", "t", "n", "e", "s", "s">>,
   <<"m", "o", "u", "s", "e">>,
   <<"k", "e", "y", "b", "o", "a", "r", "d">>}

\* _is_android_tv_device(device_info)
is_android_tv_device(device_info) ==
  LET name == lower(device_info.name)
  IN  \E indicator \in strong_indicators : Contains(name, indicator)

\* (mutant) the thresholds taken as inclusive
RssiPointsInclusive(rssi) ==
  IF rssi = NoRssi THEN 0
  ELSE IF rssi[1] >= -50 THEN 50
  ELSE IF rssi[1] >= -70 THEN 30
  ELSE IF rssi[1] >= -85 THEN 10
  ELSE 0

\* the points _calculate_device_quality gives for the signal strength
RssiPoints(rssi) ==
  IF rssi = NoRssi THEN 0
  ELSE IF rssi[1] > -50 THEN 50
  ELSE IF rssi[1] > -70 THEN 30
  ELSE IF rssi[1] > -85 THEN 10
  ELSE 0

\* (mutant) no points for the brand
NamePointsNoBrand(device_info) ==
  LET name == lower(device_info.name)
  IN  IF name # << >> /\ name # lower(NameUnknownDevice)
      THEN 20 + (IF is_android_tv_device(device_info) THEN 100 ELSE 0)
      ELSE 0

\* the points _calculate_device_quality gives for the name
NamePoints(device_info) ==
  LET name == lower(device_info.name)
  IN  IF name # << >> /\ name # lower(NameUnknownDevice)
      THEN 20
           + (IF is_android_tv_device(device_info) THEN 100 ELSE 0)
           + (IF \E brand \in known_brands : Contains(name, brand) THEN 25 ELSE 0)
      ELSE 0

\* the penalty _calculate_device_quality gives to what is clearly not a TV
NonTvPenalty(device_info) ==
  IF \E indicator \in non_tv_indicators : Contains(lower(device_info.name), indicator)
  THEN -50 ELSE 0

\* _calculate_device_quality(device_info)
calculate_device_quality(device_info) ==
  RssiPoints(device_info.rssi) + NamePoints(device_info) + NonTvPenalty(device_info)

\* a device is scored as the scoring test does: the score is stored in the
\* record; the model keeps the last two records
ScoreDevice ==
  /\ \E name \in DeviceNames, rssi \in {<< r >> : r \in RssiValues} \cup {NoRssi} :
       LET device == [name |-> name, rssi |-> rssi]
           record == [name |-> name, rssi |-> rssi,
                      quality_score |-> calculate_device_quality(device)]
       IN  scored' = IF Len(scored) < 2 THEN Append(scored, record)
                     ELSE << scored[2], record >>
  /\ UNCHANGED nonScoreVars

NextScore == ScoreDevice

SpecScore == Init /\ [][NextScore]_vars

(***************************************************************************)
(* Bluetooth discovery: filter, sort, dedup (bluetooth_enhanced.py)        *)
(***************************************************************************)
\* whether the library import succeeded; the model is of an installation
\* with bleak
BLUETOOTH_AVAILABLE == TRUE

\* filtered[:50]
RESULT_CAP == 50

\* whether _sort_and_filter_devices drops the device
\* (mutant) a device at exactly -90 dBm counts as weak
DroppedInclusive(device) ==
  \/ device.rssi # NoRssi /\ device.rssi[1] <= -90 /\ ~is_android_tv_device(device)
  \/ \E pattern \in skip_patterns : Contains(lower(device.name), pattern)

Dropped(device) ==
  \/ device.rssi # NoRssi /\ device.rssi[1] < -90 /\ ~is_android_tv_device(device)
  \/ \E pattern \in skip_patterns : Contains(lower(device.name), pattern)

\* the devices of the list that pass the filter of _sort_and_filter_devices,
\* in their order
FilterDevices(devices) == SelectSeq(devices, LAMBDA device : ~Dropped(device))

\* the quality scores that occur in the list
Scores(devices) == {devices[i].quality_score : i \in DOMAIN devices}

\* (mutant) the key of list.sort without reverse=True: lowest first
LowestScore(scores) == CHOOSE m \in scores : \A n \in scores : m <= n

\* the key that list.sort(key=quality_score, reverse=True) puts first
HighestScore(scores) == CHOOSE m \in scores : \A n \in scores : m >= n

\* list.sort(key=quality_score, reverse=True) for the scores of the set:
\* the devices of the first score in their order, then those of the next
\* score, and so on (the sort is stable)
RECURSIVE SortByScore(_, _)
SortByScore(devices, scores) ==
  IF scores = {} THEN << >>
  ELSE LET top == HighestScore(scores)
       IN  SelectSeq(devices, LAMBDA device : device.quality_score = top)
             \o SortByScore(devices, scores \ {top})

\* _sort_and_filter_devices(devices)
sort_and_filter_devices(devices) ==
  LET kept == FilterDevices(devices)
      filtered == SortByScore(kept, Scores(kept))
  IN  SubSeq(filtered, 1, IF Len(filtered) < RESULT_CAP THEN Len(filtered) ELSE RESULT_CAP)

\* the addresses of the scans; 0 stands for a device without address
NoAddress == 0
X == 1
Y == 2

\* what BleakScanner.discover reports of one device; name << >> is None
Seen(address, name, rssi) == [address |-> address, name |-> name, rssi |-> rssi]

\* the observations of the device at X
SeenAtX == {Seen(X, NameAndroidTV, << r >>) : r \in {-60, -55, -45}}

\* one scan of the neighbours: a weak Chromecast, a weak speaker, a phone
\* and a tablet close by, a speaker at exactly -90 dBm and a speaker whose
\* advertisement carries no signal strength
Neighbours ==
  << Seen(Y, NameChromecast, << -95 >>), Seen(3, NameSpeaker, << -95 >>),
     Seen(4, NameRandomPhone, << -45 >>), Seen(5, NameTablet, << -45 >>),
     Seen(6, NameSpeaker, << -90 >>), Seen(7, NameSpeaker, NoRssi) >>

\* one scan of a device without address and of a device without name and
\* signal strength
Nameless == << Seen(NoAddress, NameSpeaker, << -40 >>), Seen(Y, << >>, NoRssi) >>

\* a room full of speakers, at all four signal tiers
Crowd == [i \in 1 .. CrowdSize |-> Seen(i, NameSpeaker, << -40 - 15 * (i % 4) >>)]

\* the lists BleakScanner.discover returns in the model; the room full of
\* speakers is met by the first scan of a call
ScanResults(attempt) ==
  {<< >>, Neighbours, Nameless} \cup {<< x >> : x \in SeenAtX}
    \cup (IF attempt = 0 THEN {Crowd} ELSE {})

\* device_info of a scanned device, with its quality score
DeviceInfo(device, attempt) ==
  LET info == [address |-> device.address,
               name |-> IF device.name = << >> THEN NameUnknownDevice ELSE device.name,
               rssi |-> device.rssi,
               discovery_attempt |-> attempt + 1]
  IN  [address |-> info.address, name |-> info.name, rssi |-> info.rssi,
       discovery_attempt |-> info.discovery_attempt,
       quality_score |-> calculate_device_quality(info)]

\* the position of the address in the dict, 0 when it is not a key
IndexOf(devices, address) ==
  IF \E i \in DOMAIN devices : devices[i].address = address
  THEN CHOOSE i \in DOMAIN devices : devices[i].address = address
  ELSE 0

\* (mutant) a later observation of equal score replaces the entry too
DedupOrEqual(devices, info) ==
  LET i == IndexOf(devices, info.address)
  IN  IF i = 0 THEN Append(devices, info)
      ELSE IF info.quality_score >= devices[i].quality_score
           THEN [devices EXCEPT ![i] = info]
           ELSE devices

\* if addr not in all_devices or score > all_devices[addr].score:
\*     all_devices[addr] = device_info
Dedup(devices, info) ==
  LET i == IndexOf(devices, info.address)
  IN  IF i = 0 THEN Append(devices, info)
      ELSE IF info.quality_score > devices[i].quality_score
           THEN [devices EXCEPT ![i] = info]
           ELSE devices

\* the loop over the devices of one scan, evaluated by halves: the devices
\* of the first half are merged (and the result is there) before those of
\* the second
RECURSIVE MergeScan(_, _, _)
MergeScan(devices, discovered, attempt) ==
  IF discovered = << >> THEN devices
  ELSE IF Len(discovered) = 1
  THEN IF discovered[1].address = NoAddress
       THEN devices
       ELSE Dedup(devices, DeviceInfo(discovered[1], attempt))
  ELSE LET half == Len(discovered) \div 2
           first == MergeScan(devices, SubSeq(discovered, 1, half), attempt)
       IN  IF Len(first) = 0
           THEN MergeScan(<< >>, SubSeq(discovered, half + 1, Len(discovered)), attempt)
           ELSE MergeScan(first, SubSeq(discovered, half + 1, Len(discovered)), attempt)

\* the device_info of the devices of a scan that have an address
Observed(discovered, attempt) ==
  LET with == SelectSeq(discovered, LAMBDA device : device.address # NoAddress)
  IN  [k \in DOMAIN with |-> DeviceInfo(with[k], attempt)]

\* enhanced_discover_devices(timeout, retry_count) is entered
enhanced_discover_devices ==
  /\ dpc = "idle"
  /\ \E retry_count \in 0 .. MaxScans :
       dframe' = [retry_count |-> retry_count, attempt |-> 0]
  /\ dret' = [op |-> "enhanced_discover_devices", result |-> "running"]
  /\ IF BLUETOOTH_AVAILABLE THEN dpc' = "scan" ELSE dpc' = "unavailable"
  /\ all_devices' = << >>
  /\ dslept' = << >>
  /\ dseen' = << >>
  /\ dlog' = << >>
  /\ UNCHANGED << discovered_devices, basic_discovered_devices, nonDiscVars >>

\* (mutant) the dict is emptied at every attempt
ScanReturnsFresh ==
  /\ dpc = "scan"
  /\ dframe.attempt < dframe.retry_count
  /\ \E discovered \in ScanResults(dframe.attempt) :
       LET seen == Observed(discovered, dframe.attempt)
       IN  /\ all_devices' = MergeScan(<< >>, discovered, dframe.attempt)
           /\ dseen' = dseen \o seen
           /\ dlog' = Append(dlog, IF Len(seen) > 0 THEN "found" ELSE "none")
           /\ dslept' = IF dframe.attempt < dframe.retry_count - 1
                        THEN Append(dslept, IF Len(seen) > 0 THEN 2 ELSE 5)
                        ELSE dslept
  /\ dframe' = [dframe EXCEPT !.attempt = @ + 1]
  /\ UNCHANGED << discovered_devices, dpc, dret, basic_discovered_devices, nonDiscVars >>

\* BleakScanner.discover returns: the devices are merged into the dict and
\* the call pauses unless this was the last attempt
ScanReturns ==
  /\ dpc = "scan"
  /\ dframe.attempt < dframe.retry_count
  /\ \E discovered \in ScanResults(dframe.attempt) :
       LET seen == Observed(discovered, dframe.attempt)
       IN  /\ all_devices' = MergeScan(all_devices, discovered, dframe.attempt)
           /\ dseen' = dseen \o seen
           /\ dlog' = Append(dlog, IF Len(seen) > 0 THEN "found" ELSE "none")
           /\ dslept' = IF dframe.attempt < dframe.retry_count - 1
                        THEN Append(dslept, IF Len(seen) > 0 THEN 2 ELSE 5)
                        ELSE dslept
  /\ dframe' = [dframe EXCEPT !.attempt = @ + 1]
  /\ UNCHANGED << discovered_devices, dpc, dret, basic_discovered_devices, nonDiscVars >>

\* (mutant) the pause after a failed scan is taken after the last attempt too
ScanRaisesSleepsLast ==
  /\ dpc = "scan"
  /\ dframe.attempt < dframe.retry_count
  /\ dslept' = Append(dslept, 3)
  /\ dlog' = Append(dlog, "raised")
  /\ dframe' = [dframe EXCEPT !.attempt = @ + 1]
  /\ UNCHANGED << all_devices, discovered_devices, dpc, dret, dseen,
                  basic_discovered_devices, nonDiscVars >>

\* BleakScanner.discover raises: logged, 3 seconds unless this was the
\* last attempt
ScanRaises ==
  /\ dpc = "scan"
  /\ dframe.attempt < dframe.retry_count
  /\ dslept' = IF dframe.attempt < dframe.retry_count - 1 THEN Append(dslept, 3) ELSE dslept
  /\ dlog' = Append(dlog, "raised")
  /\ dframe' = [dframe EXCEPT !.attempt = @ + 1]
  /\ UNCHANGED << all_devices, discovered_devices, dpc, dret, dseen,
                  basic_discovered_devices, nonDiscVars >>

\* after the last attempt, or without Bluetooth: the list is filtered,
\* sorted, kept and returned
DiscoverReturns ==
  /\ \/ dpc = "scan" /\ dframe.attempt = dframe.retry_count
     \/ dpc = "unavailable"
  /\ IF dpc = "unavailable"
     THEN UNCHANGED discovered_devices
     ELSE discovered_devices' = sort_and_filter_devices(all_devices)
  /\ dpc' = "idle"
  /\ dret' = [dret EXCEPT !.result = "returned"]
  /\ UNCHANGED << all_devices, dframe, dslept, dseen, dlog, basic_discovered_devices, nonDiscVars >>

\* BluetoothDeviceManager.discover_devices(timeout) is entered and calls
\* the controller's discover_android_tv_devices(timeout, max_attempts)
discover_devices ==
  /\ dpc = "idle"
  /\ dpc' = "discover_android_tv_devices"
  /\ dret' = [op |-> "discover_devices", result |-> "running"]
  /\ UNCHANGED << all_devices, discovered_devices, dframe, dslept, dseen, dlog,
                  basic_discovered_devices, nonDiscVars >>

\* discover_android_tv_devices(timeout, retry_count): without Bluetooth it
\* returns [], which the manager stores and returns; with Bluetooth its
\* first statement reads max_attempts, a name that is neither a parameter
\* nor a local nor a global, and the NameError leaves both calls
discover_android_tv_devices ==
  /\ dpc = "discover_android_tv_devices"
  /\ IF BLUETOOTH_AVAILABLE
     THEN /\ dret' = [dret EXCEPT !.result = "NameError"]
          /\ UNCHANGED basic_discovered_devices
     ELSE /\ dret' = [dret EXCEPT !.result = "returned"]
          /\ basic_discovered_devices' = << >>
  /\ dpc' = "idle"
  /\ UNCHANGED << all_devices, discovered_devices, dframe, dslept, dseen, dlog, nonDiscVars >>

NextDisc ==
  \/ enhanced_discover_devices
  \/ ScanReturns
  \/ ScanRaises
  \/ DiscoverReturns
  \/ discover_devices
  \/ discover_android_tv_devices

SpecDisc == Init /\ [][NextDisc]_vars

(***************************************************************************)
(* mDNS discovery: RemoteControl.find_android_tv (remote_control.py)       *)
(***************************************************************************)
\* the service types browsed
services == << "_androidtvremote2._tcp.local.", "_googlecast._tcp.local." >>

\* the browse window, in seconds
timeout_seconds == 8

\* find_android_tv() is entered: self.found_addresses is bound to a new
\* empty list; the tasks of earlier calls are neither awaited nor cancelled
find_android_tv ==
  /\ zpc = "idle"
  /\ found_addresses' = << >>
  /\ zorigin' = << >>
  /\ zc' = "none"
  /\ browsers' = << >>
  /\ zslept' = << >>
  /\ zlookups' = [own |-> 0, stale |-> zlookups.own + zlookups.stale]
  /\ zret' = [op |-> "find_android_tv", result |-> "running", list |-> << >>]
  /\ zpc' = "resolver"
  /\ UNCHANGED nonMdnsVars

\* AsyncZeroconf() returns the resolver
ResolverCreated ==
  /\ zpc = "resolver"
  /\ zc' = "open"
  /\ zpc' = "browse"
  /\ UNCHANGED << found_addresses, browsers, zslept, zlookups, zorigin, zret, nonMdnsVars >>

\* AsyncZeroconf() raises (no usable network interface): nothing catches it
ResolverRaises ==
  /\ zpc = "resolver"
  /\ zpc' = "idle"
  /\ zret' = [zret EXCEPT !.result = "raised"]
  /\ UNCHANGED << found_addresses, zc, browsers, zslept, zlookups, zorigin, nonMdnsVars >>

\* AsyncServiceBrowser(...) for the next service type returns; after the
\* last one the call awaits asyncio.sleep(timeout_seconds)
BrowserStarted ==
  /\ zpc = "browse"
  /\ browsers' = Append(browsers, "running")
  /\ zpc' = IF Len(browsers) + 1 = Len(services) THEN "sleep" ELSE "browse"
  /\ UNCHANGED << found_addresses, zc, zslept, zlookups, zorigin, zret, nonMdnsVars >>

\* AsyncServiceBrowser(...) raises: nothing catches it, the resolver and the
\* browsers started before stay as they are
BrowserRaises ==
  /\ zpc = "browse"
  /\ zpc' = "idle"
  /\ zret' = [zret EXCEPT !.result = "raised"]
  /\ UNCHANGED << found_addresses, zc, browsers, zslept, zlookups, zorigin, nonMdnsVars >>

\* _async_on_service_state_change: a browser reports an added service while
\* the call is suspended; the lookup is started as a task of its own
ServiceAdded ==
  /\ zpc \in {"sleep", "cancel", "close"}
  /\ \E i \in DOMAIN browsers : browsers[i] = "running"
  /\ Len(found_addresses) + zlookups.own + zlookups.stale < MaxLookups
  /\ zlookups' = [zlookups EXCEPT !.own = @ + 1]
  /\ UNCHANGED << found_addresses, zc, browsers, zpc, zslept, zorigin, zret, nonMdnsVars >>

\* the task of _async_display_service_info ends, whatever find_android_tv is
\* doing: info.async_request has returned and the addresses of a host are
\* appended to the list self.found_addresses names now, or there is no
\* address, or an exception stays in the task
ServiceLookup ==
  /\ \E kind \in {"own", "stale"} :
       /\ zlookups[kind] > 0
       /\ zlookups' = [zlookups EXCEPT ![kind] = @ - 1]
       /\ \/ \E host \in Hosts :
               /\ found_addresses' = Append(found_addresses, host)
               /\ zorigin' = Append(zorigin, kind)
          \/ UNCHANGED << found_addresses, zorigin >>
  /\ UNCHANGED << zc, browsers, zpc, zslept, zret, nonMdnsVars >>

\* asyncio.sleep(timeout_seconds) returns
SleepEnds ==
  /\ zpc = "sleep"
  /\ zslept' = Append(zslept, timeout_seconds)
  /\ zpc' = "cancel"
  /\ UNCHANGED << found_addresses, zc, browsers, zlookups, zorigin, zret, nonMdnsVars >>

\* the next browser of the loop that cancels them
NextBrowser == CHOOSE i \in DOMAIN browsers :
                 browsers[i] = "running" /\ \A j \in 1 .. i - 1 : browsers[j] # "running"

\* await b.async_cancel() returns, or raises an Exception that is passed
\* over; after the last browser the resolver is closed
BrowserCancelled ==
  /\ zpc = "cancel"
  /\ \E outcome \in {"cancelled", "cancel_failed"} :
       browsers' = [browsers EXCEPT ![NextBrowser] = outcome]
  /\ zpc' = IF NextBrowser = Len(browsers) THEN "close" ELSE "cancel"
  /\ UNCHANGED << found_addresses, zc, zslept, zlookups, zorigin, zret, nonMdnsVars >>

\* await zc.async_close() returns, or raises an Exception that is passed
\* over; self.found_addresses, the list object itself, is returned
ResolverClosed ==
  /\ zpc = "close"
  /\ \E outcome \in {"closed", "close_failed"} : zc' = outcome
  /\ zpc' = "idle"
  /\ zret' = [zret EXCEPT !.result = "returned", !.list = found_addresses]
  /\ UNCHANGED << found_addresses, browsers, zslept, zlookups, zorigin, nonMdnsVars >>

\* the timeout of the caller's asyncio.wait_for cancels the call at the
\* await it is suspended in: CancelledError is not an Exception, no handler
\* of the call catches it and the call has no finally
FindCancelled ==
  /\ zpc \in {"sleep", "cancel", "close"}
  /\ zpc' = "idle"
  /\ zret' = [zret EXCEPT !.result = "cancelled"]
  /\ UNCHANGED << found_addresses, zc, browsers, zslept, zlookups, zorigin, nonMdnsVars >>

NextMdns ==
  \/ find_android_tv
  \/ ResolverCreated
  \/ ResolverRaises
  \/ BrowserStarted
  \/ BrowserRaises
  \/ ServiceAdded
  \/ ServiceLookup
  \/ SleepEnds
  \/ BrowserCancelled
  \/ ResolverClosed
  \/ FindCancelled

SpecMdns == Init /\ [][NextMdns]_vars

(***************************************************************************)
(* Connection history (history.py)                                         *)
(***************************************************************************)
\* the addresses and the name the callers pass
Ips == {"1.2.3.4", "10.0.0.1", "192.168.1.100"}
HistoryNames == {"A"}

\* what datetime.now() returns: seconds and microseconds of the wall clock
Now == {[second |-> 1, microsecond |-> 0], [second |-> 1, microsecond |-> 500000],
        [second |-> 2, microsecond |-> 0]}

\* datetime.isoformat(): the text has no fraction when the microseconds
\* are 0; a text is the tuple of its numbers
isoformat(t) == IF t.microsecond = 0 THEN << t.second >> ELSE << t.second, t.microsecond >>

\* datetime.fromisoformat(text): a text without fraction has 0 microseconds
fromisoformat(text) ==
  [second |-> text[1], microsecond |-> IF Len(text) = 1 THEN 0 ELSE text[2]]

\* datetime.timestamp(), in microseconds
timestamp(t) == t.second * 1000000 + t.microsecond

\* load_history(): the entries of the file, [] when there is no file;
\* json.load gives back the strings and booleans json.dump wrote
load_history == history_file

\* (mutant) the key without the minus sign: oldest first
SortKeyOldestFirst(x) ==
  << IF x.favorite THEN 0 ELSE 1, timestamp(fromisoformat(x.last_connected)) >>

\* the sort key of get_history: (not favorite, -timestamp); False is 0
SortKey(x) ==
  << IF x.favorite THEN 0 ELSE 1, 0 - timestamp(fromisoformat(x.last_connected)) >>

\* the order of Python tuples of two numbers
TupleLessEq(a, b) == a[1] < b[1] \/ (a[1] = b[1] /\ a[2] <= b[2])

\* sorted(history, key=SortKey) for the keys of the set: the entries of the
\* least key in their order, then those of the next key (the sort is stable)
RECURSIVE SortedByKey(_, _)
SortedByKey(history, keys) ==
  IF keys = {} THEN << >>
  ELSE LET least == CHOOSE k \in keys : \A m \in keys : TupleLessEq(k, m)
       IN  SelectSeq(history, LAMBDA x : SortKey(x) = least)
             \o SortedByKey(history, keys \ {least})

\* (mutant) the entry is added without removing the one of the same ip
update_history_append ==
  \E name \in HistoryNames, ip \in Ips, favorite \in BOOLEAN, now \in Now :
    LET history == load_history
        entry == [device_name |-> name, ip |-> ip,
                  last_connected |-> isoformat(now), favorite |-> favorite]
    IN  /\ history_file' = << entry >> \o history
        /\ hret' = [op |-> "update_history", ip |-> ip, now |-> isoformat(now),
                    before |-> history_file, result |-> << >>]
        /\ UNCHANGED nonHistVars

\* update_history(device_name, ip, favorite): the entries of the ip are
\* removed, the new entry is put first, the file is written
update_history ==
  \E name \in HistoryNames, ip \in Ips, favorite \in BOOLEAN, now \in Now :
    LET history == SelectSeq(load_history, LAMBDA entry : entry.ip # ip)
        entry == [device_name |-> name, ip |-> ip,
                  last_connected |-> isoformat(now), favorite |-> favorite]
    IN  /\ history_file' = << entry >> \o history
        /\ hret' = [op |-> "update_history", ip |-> ip, now |-> isoformat(now),
                    before |-> history_file, result |-> << >>]
        /\ UNCHANGED nonHistVars

\* set_favorite(ip, favorite): the flag of the entries of the ip is set,
\* the file is written
set_favorite ==
  \E ip \in Ips, favorite \in BOOLEAN :
    LET history == load_history
    IN  /\ history_file' = [i \in DOMAIN history |->
                              IF history[i].ip = ip
                              THEN [history[i] EXCEPT !.favorite = favorite]
                              ELSE history[i]]
        /\ hret' = [op |-> "set_favorite", ip |-> ip, now |-> << >>,
                    before |-> history_file, result |-> << >>]
        /\ UNCHANGED nonHistVars

\* get_history(): the sorted copy of the entries is returned
get_history ==
  LET history == load_history
  IN  /\ hret' = [op |-> "get_history", ip |-> "None", now |-> << >>,
                  before |-> history_file,
                  result |-> SortedByKey(history, {SortKey(history[i]) : i \in DOMAIN history})]
      /\ UNCHANGED << history_file, nonHistVars >>

NextHist ==
  \/ update_history
  \/ set_favorite
  \/ get_history

SpecHist == Init /\ [][NextHist]_vars

\* the positions of the observations of the address in this call
ObservationsOf(address) == {k \in DOMAIN dseen : dseen[k].address = address}

\* the first of the observations of the address that have its highest score
FirstBest(address) ==
  LET ks == ObservationsOf(address)
      top == CHOOSE k \in ks : \A m \in ks : dseen[m].quality_score <= dseen[k].quality_score
      first == CHOOSE k \in ks :
                 /\ dseen[k].quality_score = dseen[top].quality_score
                 /\ \A m \in ks : dseen[m].quality_score = dseen[top].quality_score => k <= m
  IN  dseen[first]

\* C21: across the attempts of one discovery call every address observed
\* has exactly one entry, the observation with the highest score; an
\* observation of equal score does not replace it (first seen is kept)
C21_DedupKeepsBestFirstSeen ==
  /\ \A i, j \in DOMAIN all_devices :
       all_devices[i].address = all_devices[j].address => i = j
  /\ {all_devices[i].address : i \in DOMAIN all_devices}
       = {dseen[k].address : k \in DOMAIN dseen}
  /\ \A i \in DOMAIN all_devices : all_devices[i] = FirstBest(all_devices[i].address)

\* a call has ended in which an address was observed twice with the same
\* score at different signal strengths, and the first observation is kept
C21_Witness ==
  /\ dpc = "idle"
  /\ dret.result = "returned"
  /\ \E k, m \in DOMAIN dseen :
       /\ k < m
       /\ dseen[k].address = dseen[m].address
       /\ dseen[k].quality_score = dseen[m].quality_score
       /\ dseen[k].rssi # dseen[m].rssi
       /\ \E i \in DOMAIN all_devices : all_devices[i] = dseen[k]

\* a call with retry_count = 2 has returned whose first attempt found X
\* as "Android TV" at -60 and whose second attempt found X at the given
\* signal strength, and nothing else
RescanOfX(rssi) ==
  /\ dpc = "idle"
  /\ dret.result = "returned"
  /\ dframe.retry_count = 2
  /\ dseen = << DeviceInfo(Seen(X, NameAndroidTV, << -60 >>), 0),
                DeviceInfo(Seen(X, NameAndroidTV, << rssi >>), 1) >>

\* the entries of the returned list for X
EntriesOfX == SelectSeq(discovered_devices, LAMBDA device : device.address = X)

\* C22 as stated: after attempt 1 finds X at -60 and attempt 2 finds it at
\* -55 the result has exactly one entry for X, with RSSI -55 and a higher
\* score than the first observation
C22_RescanReplacesEntry ==
  RescanOfX(-55) =>
    /\ Len(EntriesOfX) = 1
    /\ EntriesOfX[1].rssi = << -55 >>
    /\ EntriesOfX[1].quality_score > dseen[1].quality_score

\* C22 amended: -60 and -55 lie in the same tier, so both observations score
\* 175 and the single entry for X is the first one, with RSSI -60; a second
\* observation in a higher tier (-45) replaces it, with score 195
C22_RescanKeepsFirstOnTie ==
  /\ RescanOfX(-55) =>
       /\ Len(EntriesOfX) = 1
       /\ EntriesOfX[1] = dseen[1]
       /\ EntriesOfX[1].rssi = << -60 >>
       /\ EntriesOfX[1].quality_score = 175
       /\ dseen[2].quality_score = 175
  /\ RescanOfX(-45) =>
       /\ Len(EntriesOfX) = 1
       /\ EntriesOfX[1] = dseen[2]
       /\ EntriesOfX[1].rssi = << -45 >>
       /\ EntriesOfX[1].quality_score = 195

\* the scenario of C22 has run and the result holds one entry for X
C22_Witness == RescanOfX(-55) /\ Len(EntriesOfX) = 1

\* the two records scored last are a "Chromecast" and a "random-phone" at
\* the same signal strength
ChromecastAndPhone ==
  /\ Len(scored) = 2
  /\ scored[1].name = NameChromecast
  /\ scored[2].name = NameRandomPhone
  /\ scored[1].rssi = scored[2].rssi

\* C23 as stated: at the same RSSI, also without RSSI, "Chromecast" scores
\* at least 190 points more than "random-phone"
C23_ChromecastLeadsBy190 ==
  ChromecastAndPhone => scored[1].quality_score >= scored[2].quality_score + 190

\* C23 amended: at the same RSSI, also without RSSI, "Chromecast" scores
\* exactly 175 points more than "random-phone": 20 + 100 + 25 against
\* 20 - 50
C23_ChromecastLeadsBy175 ==
  ChromecastAndPhone => scored[1].quality_score = scored[2].quality_score + 175

\* both were scored without RSSI
C23_Witness == ChromecastAndPhone /\ scored[1].rssi = NoRssi

\* C24: for one name the score does not decrease as the signal gets
\* stronger; the signal alone gives 50 above -50, 30 above -70, 10 above
\* -85 and 0 otherwise; the total is not clamped, "random-phone" at -85 or
\* weaker scores -30
C24_ScoreMonotonicInRssi ==
  /\ \A i, j \in DOMAIN scored :
       /\ scored[i].name = scored[j].name
       /\ scored[i].rssi # NoRssi
       /\ scored[j].rssi # NoRssi
       /\ scored[i].rssi[1] >= scored[j].rssi[1]
       => scored[i].quality_score >= scored[j].quality_score
  /\ \A i \in DOMAIN scored :
       scored[i].name = NameEmpty /\ scored[i].rssi # NoRssi =>
         scored[i].quality_score =
           IF scored[i].rssi[1] > -50 THEN 50
           ELSE IF scored[i].rssi[1] > -70 THEN 30
           ELSE IF scored[i].rssi[1] > -85 THEN 10
           ELSE 0
  /\ \A i \in DOMAIN scored :
       /\ scored[i].name = NameRandomPhone
       /\ scored[i].rssi # NoRssi
       /\ scored[i].rssi[1] <= -85
       => scored[i].quality_score = -30

\* one name was scored at two signal strengths of different tiers, and a
\* total is negative
C24_Witness ==
  /\ Len(scored) = 2
  /\ scored[1].name = NameRandomPhone
  /\ scored[2].name = NameRandomPhone
  /\ scored[1].rssi = << -85 >>
  /\ scored[2].rssi = << -84 >>
  /\ scored[1].quality_score < 0
  /\ scored[2].quality_score > scored[1].quality_score

\* C25: the list kept and returned by a discovery is in descending order
\* of quality score, has at most 50 entries and no address twice
C25_ResultSortedCappedDistinct ==
  /\ \A i, j \in DOMAIN discovered_devices :
       i < j => discovered_devices[i].quality_score >= discovered_devices[j].quality_score
  /\ Len(discovered_devices) <= 50
  /\ \A i, j \in DOMAIN discovered_devices :
       discovered_devices[i].address = discovered_devices[j].address => i = j

\* a discovery over two attempts has seen more than 50 devices and returned
\* exactly 50, of different scores
C25_Witness ==
  /\ dpc = "idle"
  /\ dret.result = "returned"
  /\ dframe.retry_count >= 2
  /\ Len(all_devices) > 50
  /\ Len(discovered_devices) = 50
  /\ discovered_devices[1].quality_score > discovered_devices[50].quality_score

\* C26 as stated: no discovery operation ends with an exception for its
\* caller; find_android_tv returns its list whatever the resolver, a browser
\* or a lookup raises
C26_DiscoveryNeverRaises ==
  /\ dret.op = "enhanced_discover_devices" => dret.result # "raised"
  /\ zret.op = "find_android_tv" => zret.result # "raised"

\* C27 as stated: with Bluetooth available a call of the basic manager's
\* discover_devices that has ended has returned its list and not raised
C27_BasicDiscoveryReturns ==
  BLUETOOTH_AVAILABLE /\ dret.op = "discover_devices" /\ dpc = "idle" =>
    dret.result = "returned"

\* C28 as stated: a call of find_android_tv never sleeps twice, a call
\* that returned has slept the browse window once, and when the call has
\* ended, however it ended, every browser it started is cancelled and the
\* resolver it created is closed
C28_BrowseOnceAndCleanUp ==
  /\ Len(zslept) <= 1
  /\ zret.result = "returned" => zslept = << timeout_seconds >>
  /\ zret.op = "find_android_tv" /\ zpc = "idle" =>
       /\ \A i \in DOMAIN browsers : browsers[i] = "cancelled"
       /\ zc \in {"none", "closed"}

\* the entries of the ip in a list of entries
EntriesOf(history, ip) == SelectSeq(history, LAMBDA entry : entry.ip = ip)

\* C29: the history never holds two entries of one address; after
\* update_history the address has exactly one entry, first in the list and
\* with the timestamp of this call, and the other entries are as before;
\* set_favorite leaves the number, the order, the addresses and the
\* timestamps of the entries as they were
C29_HistoryUpsert ==
  /\ \A ip \in Ips : Len(EntriesOf(history_file, ip)) <= 1
  /\ hret.op = "update_history" =>
       /\ Len(EntriesOf(history_file, hret.ip)) = 1
       /\ history_file[1].ip = hret.ip
       /\ history_file[1].last_connected = hret.now
       /\ Tail(history_file) = SelectSeq(hret.before, LAMBDA entry : entry.ip # hret.ip)
  /\ hret.op = "set_favorite" =>
       /\ Len(history_file) = Len(hret.before)
       /\ \A i \in DOMAIN history_file :
            /\ history_file[i].ip = hret.before[i].ip
            /\ history_file[i].device_name = hret.before[i].device_name
            /\ history_file[i].last_connected = hret.before[i].last_connected

\* update_history ran for an address that had an entry with another
\* timestamp, behind another entry, and the address has one entry, with the
\* new timestamp
C29_Witness ==
  /\ hret.op = "update_history"
  /\ Len(hret.before) >= 2
  /\ hret.before[2].ip = hret.ip
  /\ hret.before[2].last_connected # hret.now
  /\ Len(history_file) = Len(hret.before)
  /\ history_file[1].last_connected = hret.now

\* the time of an entry, in microseconds
When(entry) ==
  entry.last_connected[1] * 1000000
    + (IF Len(entry.last_connected) > 1 THEN entry.last_connected[2] ELSE 0)

\* C30: get_history returns every stored entry exactly once, every
\* favorite before every other entry and, among the favorites and among the
\* others, a later last_connected before an earlier one; the store is as
\* it was
C30_GetHistoryOrder ==
  hret.op = "get_history" =>
    /\ history_file = hret.before
    /\ Len(hret.result) = Len(history_file)
    /\ \A i \in DOMAIN history_file :
         Cardinality({j \in DOMAIN hret.result : hret.result[j] = history_file[i]}) = 1
    /\ \A i, j \in DOMAIN hret.result :
         i < j => hret.result[i].favorite \/ ~hret.result[j].favorite
    /\ \A i, j \in DOMAIN hret.result :
         i < j /\ hret.result[i].favorite = hret.result[j].favorite
           => When(hret.result[i]) >= When(hret.result[j])

\* get_history returned three entries in another order than the stored
\* one: an older favorite before two others, the later of them first
C30_Witness ==
  /\ hret.op = "get_history"
  /\ Len(hret.result) = 3
  /\ hret.result # history_file
  /\ hret.result[1].favorite
  /\ ~hret.result[2].favorite
  /\ ~hret.result[3].favorite
  /\ When(hret.result[1]) < When(hret.result[3])
  /\ When(hret.result[2]) > When(hret.result[3])

\* the handle connects the running or last connect call made
ConnectAttempts == Len(SelectSeq(io, LAMBDA e : e.op = "connect"))

\* C31 as stated: connect makes at most max_attempts handle connects, every
\* sleep between attempts is 2 seconds, and a call that failed slept after
\* every attempt but the last
C31_FixedBackoffBetweenAttempts ==
  ret.op = "connect" =>
    /\ ConnectAttempts <= frame.max_attempts
    /\ \A i \in DOMAIN slept : slept[i] = 2
    /\ ConnectFailed /\ frame.max_attempts > 0 => Len(slept) = frame.max_attempts - 1

\* C32 as stated: in a key send whose press report was accepted, every
\* accepted write of the release report went to the characteristic that
\* accepted the press report
C32_ReleaseOnPressCharacteristic ==
  (KeySent /\ PressAccepted) =>
    \A i \in DOMAIN Writes :
      (Writes[i].data = ReleaseReport /\ Writes[i].ok) =>
        \E j \in 1 .. i - 1 :
          /\ Writes[j].ok
          /\ Writes[j].data = PressReport
          /\ Writes[j].char = Writes[i].char

\* C33 as stated: a key send on the resolved characteristic whose press
\* write failed has tried the press write again before it returned False
C33_PressWriteRetried ==
  (KeySent /\ hid_report_char # None /\ Len(Writes) >= 1 /\ ~Writes[1].ok) =>
    /\ Len(Writes) >= 2
    /\ Writes[2].data = Writes[1].data

\* an enhanced discovery has returned its list
DiscoveryReturned ==
  dpc = "idle" /\ dret.op = "enhanced_discover_devices" /\ dret.result = "returned"

\* the device of the dict with this address is in the returned list
Kept(device) ==
  \E i \in DOMAIN discovered_devices : discovered_devices[i] = device

NameMatches(name, keywords) ==
  \E keyword \in keywords : Contains(lower(name), keyword)

\* C34 as stated: no device of the returned list has a name that matches
\* the keyword list of the -50 penalty
C34_PenalisedDevicesDropped ==
  \A i \in DOMAIN discovered_devices :
    ~NameMatches(discovered_devices[i].name, non_tv_indicators)

\* C35 as stated: a device without signal strength has the score of the
\* same device at -100 dBm, and is in the returned list exactly when the
\* same device at -100 dBm would be
C35_NoRssiTreatedAsMinus100 ==
  (DiscoveryReturned /\ Len(all_devices) <= RESULT_CAP) =>
    \A i \in DOMAIN all_devices :
      all_devices[i].rssi = NoRssi =>
        LET device == all_devices[i]
            worst == [device EXCEPT !.rssi = << -100 >>]
        IN  /\ device.quality_score = calculate_device_quality(worst)
            /\ Kept(device) <=> ~Dropped(worst)

\* C36: a device of the returned list that is weaker than -90 dBm has a
\* name matching the Android-TV keyword list, and every device of the dict
\* at -90 dBm or stronger whose name matches no keyword of the filter's
\* list is in the returned list when the cap is not reached
C36_WeakOnlyIfTvStrongKept ==
  DiscoveryReturned =>
    /\ \A i \in DOMAIN discovered_devices :
         LET device == discovered_devices[i]
         IN  (device.rssi # NoRssi /\ device.rssi[1] < -90) =>
               NameMatches(device.name, strong_indicators)
    /\ Len(all_devices) <= RESULT_CAP =>
         \A i \in DOMAIN all_devices :
           LET device == all_devices[i]
           IN  ( /\ device.rssi # NoRssi
                 /\ device.rssi[1] >= -90
                 /\ ~NameMatches(device.name, skip_patterns) ) => Kept(device)

\* the neighbours were scanned: the weak Chromecast and the speaker at
\* -90 dBm are returned, the weak speaker is not
C36_Witness ==
  /\ DiscoveryReturned
  /\ \E i \in DOMAIN discovered_devices :
       /\ discovered_devices[i].name = NameChromecast
       /\ discovered_devices[i].rssi = << -95 >>
  /\ \E i \in DOMAIN discovered_devices :
       /\ discovered_devices[i].name = NameSpeaker
       /\ discovered_devices[i].rssi = << -90 >>
  /\ \E i \in DOMAIN all_devices :
       /\ all_devices[i].name = NameSpeaker
       /\ all_devices[i].rssi = << -95 >>
       /\ ~Kept(all_devices[i])

\* the pause that follows a scan attempt which is not the last
ScanPause(outcome) ==
  CASE outcome = "found" -> 2
    [] outcome = "none" -> 5
    [] outcome = "raised" -> 3

\* the pauses a call has made: one after every finished attempt that is not
\* the last of the call
PausesDue ==
  IF Len(dlog) = 0 \/ Len(dlog) < dframe.retry_count THEN Len(dlog) ELSE Len(dlog) - 1

\* C37 as stated: exactly retry_count attempts, a pause after every attempt
\* but the last: 2 seconds after an attempt that found devices, 5 seconds
\* after one that found none
C37_PauseTwoOrFive ==
  dret.op = "enhanced_discover_devices" =>
    /\ Len(dlog) <= dframe.retry_count
    /\ DiscoveryReturned => Len(dlog) = dframe.retry_count
    /\ Len(dslept) = PausesDue
    /\ \A i \in DOMAIN dslept : dslept[i] = IF dlog[i] = "found" THEN 2 ELSE 5

\* C37, amended: exactly retry_count attempts, a pause after every attempt
\* but the last: 2 seconds after an attempt that found devices, 5 seconds
\* after one that found none, 3 seconds after one whose scan raised
C37_PauseByOutcome ==
  dret.op = "enhanced_discover_devices" =>
    /\ Len(dlog) <= dframe.retry_count
    /\ DiscoveryReturned => Len(dlog) = dframe.retry_count
    /\ Len(dslept) = PausesDue
    /\ \A i \in DOMAIN dslept : dslept[i] = ScanPause(dlog[i])

\* a discovery of two attempts has returned: the first scan found devices,
\* the last one raised, and the call paused once, for 2 seconds
C37_Witness ==
  /\ DiscoveryReturned
  /\ dframe.retry_count = 2
  /\ dlog = << "found", "raised" >>
  /\ dslept = << 2 >>

\* the notifications of the running or last connect call that carried
\* connected = True
ConnectedNotifications == SelectSeq(notified, LAMBDA n : n[1])

\* C38: with a callback set, a connect call delivers connected = True at
\* most once, as its last notification and only when it has returned True
\* with is_connected set; a call that returned True has delivered it, and a
\* call that returned False has delivered (False, "Disconnected") last
C38_ConnectedNotifiedOnceOnSuccess ==
  (ret.op = "connect" /\ connection_callback) =>
    /\ Len(ConnectedNotifications) <= 1
    /\ Len(ConnectedNotifications) = 1 =>
         /\ pc = "idle"
         /\ ret.result
         /\ is_connected
         /\ notified[Len(notified)] = << TRUE, "Connected" >>
    /\ (pc = "idle" /\ ret.result) => Len(ConnectedNotifications) = 1
    /\ ConnectFailed =>
         /\ Len(notified) >= 1
         /\ notified[Len(notified)] = << FALSE, "Disconnected" >>

\* a connect of two attempts with a callback set has failed: its
\* notifications are Connecting twice, Connection failed, Disconnected
C38_Witness ==
  /\ ConnectFailed
  /\ connection_callback
  /\ frame.max_attempts = 2
  /\ notified = << << FALSE, "Connecting" >>, << FALSE, "Connecting" >>,
                   << FALSE, "Connection failed" >>, << FALSE, "Disconnected" >> >>

\* the handle connects made so far by the running or last connect_with_retry
TransportSoFar == mframe.transport + (IF mpc = "await" THEN TransportConnects ELSE 0)

\* C39: a connect_with_retry(address, max_retries = n) never makes more than
\* 3 * n handle connects; one that returned False made exactly 3 * n of
\* them and raised the counter of the address by exactly n
C39_NestedRetryLoops ==
  mret.op = "connect_with_retry" =>
    /\ TransportSoFar <= 3 * mframe.max_retries
    /\ (RetryDone /\ ~mret.result) =>
         /\ mframe.transport = 3 * mframe.max_retries
         /\ get_connection_history(mframe.device_address)
              = mframe.start + mframe.max_retries

\* connect_with_retry with max_retries = 3 has returned False after nine
\* handle connects, the counter of the address three higher than before
C39_Witness ==
  /\ RetryDone
  /\ ~mret.result
  /\ mframe.max_retries = 3
  /\ mframe.transport = 9
  /\ get_connection_history(mframe.device_address) = mframe.start + 3

\* C40 as stated: the list of a call holds no address added by a lookup that
\* an earlier call started, and the list a call returned is the list as it
\* was when the call returned
C40_ResultFromOwnWindowOnly ==
  /\ \A i \in DOMAIN zorigin : zorigin[i] = "own"
  /\ (zpc = "idle" /\ zret.result = "returned") => found_addresses = zret.list
====
